---- MODULE Spec2Model ----
(***************************************************************************)
(* A model of pyquil's ISA layer: the CompilerISA container and its edge   *)
(* keys (contrib/rpcq.py), the graph transformer (device/graph.py), the    *)
(* vendor (QCS) transformer (device/qcs.py) and the gateset synthesizer    *)
(* gates_in_isa (device/_base.py).                                         *)
(*                                                                         *)
(* Python values are modelled with their type where the code depends on    *)
(* it: a str is a sequence of one-character strings, so that str(), join,  *)
(* split and int() are computed and not assumed; a dict key carries its    *)
(* type ([str |-> s] or [int |-> n]) because Python never finds an int     *)
(* among str keys; a dict is the sequence of its entries in insertion      *)
(* order; Optional values are <<>> (None) or <<v>>.                        *)
(***************************************************************************)
EXTENDS Integers, Sequences, FiniteSets, TLC

VARIABLES
    src,       \* how the device was constructed: [call, arg, raised]
    device,    \* the CompilerISA: [qubits: dict, edges: dict]; None when the construction raised
    call,      \* name of the last call made on the device ("none" before the first)
    arg,       \* the arguments of that call
    ret        \* what that call returned

vars == <<src, device, call, arg, ret>>

(***************************************************************************)
(* Bounds of the model.                                                    *)
(***************************************************************************)
MaxHighNode == 1      \* node ids are 0 and 9..9+MaxHighNode: both sides of the one-/two-digit boundary
MaxEdges == 2         \* edges of an input graph or of a parsed ISA document
MaxDevEdges == 1      \* distinct edges added to a device through add_edge
MaxDevQubits == 1     \* distinct qubits added to a device through add_qubit
MaxInstr == 2         \* operations of a vendor ISA
MaxSites == 1         \* sites of one operation
MaxVendorOps == 2     \* operations of a vendor ISA that carries characteristics
MaxProgramLen == 4    \* instructions of a program

NodeIds == {0} \cup (9..(9 + MaxHighNode))

(***************************************************************************)
(* Python built-ins used by the code.                                      *)
(***************************************************************************)
None == <<>>
Some(v) == <<v>>

PyStr(s) == [str |-> s]
PyInt(n) == [int |-> n]

Digits == <<"0", "1", "2", "3", "4", "5", "6", "7", "8", "9">>

RECURSIVE StrNat(_)
StrNat(n) == IF n < 10 THEN <<Digits[n + 1]>>
             ELSE StrNat(n \div 10) \o <<Digits[(n % 10) + 1]>>

\* str(n) of an int: its decimal digits, with a leading "-" when negative.
Str(n) == IF n < 0 THEN <<"-">> \o StrNat(-n) ELSE StrNat(n)

\* sorted([a, b]) of two ints.
SortedPair(a, b) == IF a <= b THEN <<a, b>> ELSE <<b, a>>

\* sep.join(parts) for a sequence of strs.
RECURSIVE Join(_, _)
Join(sep, parts) == IF Len(parts) = 0 THEN <<>>
                    ELSE IF Len(parts) = 1 THEN parts[1]
                    ELSE parts[1] \o sep \o Join(sep, Tail(parts))

\* s.split(c) for a one-character separator c: the pieces between separators
\* (n separators give n + 1 pieces, empty ones included).
RECURSIVE SplitAcc(_, _, _)
SplitAcc(s, c, cur) == IF Len(s) = 0 THEN <<cur>>
                       ELSE IF s[1] = c THEN <<cur>> \o SplitAcc(Tail(s), c, <<>>)
                       ELSE SplitAcc(Tail(s), c, Append(cur, s[1]))
Split(s, c) == SplitAcc(s, c, <<>>)

DigitValue(ch) == CHOOSE d \in 0..9 : Digits[d + 1] = ch
IsDigit(ch) == \E d \in 0..9 : Digits[d + 1] = ch

RECURSIVE NatOfDigits(_, _)
NatOfDigits(s, acc) == IF Len(s) = 0 THEN acc
                       ELSE NatOfDigits(Tail(s), acc * 10 + DigitValue(s[1]))

\* int(s) of a str: [raised, ret]. An empty str or one holding a non-digit
\* (after an optional leading sign) is a ValueError.
ParseInt(s) ==
    LET neg == Len(s) > 0 /\ s[1] = "-"
        body == IF neg THEN Tail(s) ELSE s
    IN IF Len(body) = 0 \/ \E i \in 1..Len(body) : ~IsDigit(body[i])
       THEN [raised |-> "ValueError", ret |-> None]
       ELSE [raised |-> "None",
             ret |-> IF neg THEN 0 - NatOfDigits(body, 0) ELSE NatOfDigits(body, 0)]

(***************************************************************************)
(* dict: a sequence of [key, val] entries in insertion order.              *)
(***************************************************************************)
DictHas(d, k) == \E i \in 1..Len(d) : d[i].key = k
DictIndex(d, k) == CHOOSE i \in 1..Len(d) : d[i].key = k
\* d[k]
DictAt(d, k) == d[DictIndex(d, k)].val
\* d.get(k): Optional
DictGet(d, k) == IF DictHas(d, k) THEN Some(DictAt(d, k)) ELSE None
\* d[k] = v: replaces the value of an existing key in place, else appends
DictSet(d, k, v) == IF DictHas(d, k)
                    THEN [i \in 1..Len(d) |-> IF d[i].key = k THEN [key |-> k, val |-> v] ELSE d[i]]
                    ELSE Append(d, [key |-> k, val |-> v])
DictValues(d) == [i \in 1..Len(d) |-> d[i].val]

(***************************************************************************)
(* contrib/rpcq.py: the CompilerISA container.                             *)
(***************************************************************************)
\* Qubit(id=node_id): dead and gates take their defaults
Qubit(node_id) == [id |-> node_id, dead |-> FALSE, gates |-> <<>>]
\* Edge(ids=ids)
Edge(ids) == [ids |-> ids, dead |-> FALSE, gates |-> <<>>]
\* CompilerISA()
CompilerISA == [qubits |-> <<>>, edges |-> <<>>]

\* add_qubit: the membership test looks the int node_id up among the str
\* keys; the entry is stored, and returned, under str(node_id).
add_qubit(dev, node_id) ==
    LET d1 == IF ~DictHas(dev.qubits, PyInt(node_id))
              THEN [dev EXCEPT !.qubits = DictSet(dev.qubits, PyStr(Str(node_id)), Qubit(node_id))]
              ELSE dev
    IN [device |-> d1, ret |-> DictAt(d1.qubits, PyStr(Str(node_id)))]

get_qubit(dev, node_id) == DictGet(dev.qubits, PyStr(Str(node_id)))

\* Variants of _make_edge_id with a plausible slip: the ids joined in call
\* order, and the ids sorted as strs instead of as ints.
_make_edge_id_unsorted(qubit1, qubit2) == Join(<<"-">>, <<Str(qubit1), Str(qubit2)>>)
CharOrd(ch) == IF ch = "-" THEN 0 ELSE 1 + DigitValue(ch)
RECURSIVE StrLeq(_, _)
StrLeq(s, t) == IF Len(s) = 0 THEN TRUE
                ELSE IF Len(t) = 0 THEN FALSE
                ELSE IF s[1] = t[1] THEN StrLeq(Tail(s), Tail(t))
                ELSE CharOrd(s[1]) < CharOrd(t[1])
_make_edge_id_strsort(qubit1, qubit2) ==
    IF StrLeq(Str(qubit1), Str(qubit2))
    THEN Join(<<"-">>, <<Str(qubit1), Str(qubit2)>>)
    ELSE Join(<<"-">>, <<Str(qubit2), Str(qubit1)>>)

_make_edge_id(qubit1, qubit2) ==
    LET s == SortedPair(qubit1, qubit2) IN Join(<<"-">>, <<Str(s[1]), Str(s[2])>>)

add_edge(dev, qubit1, qubit2) ==
    LET edge_id == PyStr(_make_edge_id(qubit1, qubit2))
        d1 == IF ~DictHas(dev.edges, edge_id)
              THEN [dev EXCEPT !.edges = DictSet(dev.edges, edge_id, Edge(SortedPair(qubit1, qubit2)))]
              ELSE dev
    IN [device |-> d1, ret |-> DictAt(d1.edges, edge_id)]

get_edge(dev, qubit1, qubit2) == DictGet(dev.edges, PyStr(_make_edge_id(qubit1, qubit2)))

\* A variant of _edge_ids_from_id that takes every character but "-" for an id.
_edge_ids_from_id_chars(edge_id) ==
    LET chars == SelectSeq(edge_id, LAMBDA ch : ch # "-")
    IN [raised |-> "None", ret |-> [i \in 1..Len(chars) |-> DigitValue(chars[i])]]

\* _edge_ids_from_id: [raised, ret]; int() of a piece that is no number raises
_edge_ids_from_id(edge_id) ==
    LET parts == Split(edge_id, "-")
        parsed == [i \in 1..Len(parts) |-> ParseInt(parts[i])]
    IN IF \E i \in 1..Len(parts) : parsed[i].raised # "None"
       THEN [raised |-> "ValueError", ret |-> None]
       ELSE [raised |-> "None", ret |-> [i \in 1..Len(parts) |-> parsed[i].ret]]

\* Qubit and Edge parsed from a record of a document: v holds the Optional
\* fields dead and gates, and an absent field takes its default
ParseQubit(id, v) ==
    [id |-> id,
     dead |-> IF v.dead = None THEN FALSE ELSE v.dead[1],
     gates |-> IF v.gates = None THEN <<>> ELSE v.gates[1]]
ParseEdge(ids, v) ==
    [ids |-> ids,
     dead |-> IF v.dead = None THEN FALSE ELSE v.dead[1],
     gates |-> IF v.gates = None THEN <<>> ELSE v.gates[1]]

\* _compiler_isa_from_dict: [raised, ret]. data is [1Q: dict, 2Q: dict] with
\* str keys (given here without their type); the id of a qubit is int() of its
\* key and the ids of an edge are the parse of its key.
_compiler_isa_from_dict(data) ==
    LET ids1 == [i \in 1..Len(data["1Q"]) |-> ParseInt(data["1Q"][i].key)]
        ids2 == [i \in 1..Len(data["2Q"]) |-> _edge_ids_from_id(data["2Q"][i].key)]
    IN IF \/ \E i \in 1..Len(ids1) : ids1[i].raised # "None"
          \/ \E i \in 1..Len(ids2) : ids2[i].raised # "None"
       THEN [raised |-> "ValueError", ret |-> None]
       ELSE [raised |-> "None",
             ret |-> [qubits |-> [i \in 1..Len(ids1) |->
                                    [key |-> PyStr(data["1Q"][i].key),
                                     val |-> ParseQubit(ids1[i].ret, data["1Q"][i].val)]],
                      edges |-> [i \in 1..Len(ids2) |->
                                    [key |-> PyStr(data["2Q"][i].key),
                                     val |-> ParseEdge(ids2[i].ret, data["2Q"][i].val)]]]]

(***************************************************************************)
(* Gate capabilities (contrib/rpcq.py) and gate instances.                 *)
(***************************************************************************)
PyFloat(x) == [float |-> x]      \* a float, named by the expression that computes it
Underscore == PyStr(<<"_">>)     \* the str "_"
Theta == PyStr(<<"t", "h", "e", "t", "a">>)  \* the str "theta"

GateInfo(operator, parameters, arguments, fidelity, duration) ==
    [type |-> "GateInfo", operator |-> operator, parameters |-> parameters,
     arguments |-> arguments, fidelity |-> fidelity, duration |-> duration]

MeasureInfo(operator, qubit, target, fidelity, duration) ==
    [type |-> "MeasureInfo", operator |-> operator, qubit |-> qubit, target |-> target,
     fidelity |-> fidelity, duration |-> duration]

\* pyquil.quilatom.Parameter(name) and pyquil.quilbase.Gate(name, params, qubits);
\* a qubit of a Gate is named by its index
Parameter(name) == [Parameter |-> name]
THETA == Parameter(Theta)
Gate(name, params, qubits) == [name |-> name, params |-> params, qubits |-> qubits]

Supported1QGate == [I |-> "I", RX |-> "RX", RZ |-> "RZ", MEASURE |-> "MEASURE",
                    WILDCARD |-> "WILDCARD"]
Supported2QGate == [WILDCARD |-> "WILDCARD", CZ |-> "CZ", ISWAP |-> "ISWAP",
                    CPHASE |-> "CPHASE", XY |-> "XY"]

(***************************************************************************)
(* device/graph.py: the graph transformer.                                 *)
(***************************************************************************)
DEFAULT_1Q_GATES == <<Supported1QGate.I, Supported1QGate.RX, Supported1QGate.RZ,
                      Supported1QGate.MEASURE>>
DEFAULT_2Q_GATES == <<Supported2QGate.CZ, Supported2QGate.XY>>

graph_make_i_gates == <<GateInfo(Supported1QGate.I, <<>>, <<Underscore>>, None, None)>>

\* MEASURE with the one instance that names a target
graph_make_measure_gates_targeted ==
    <<[type |-> "MeasureInfo", operator |-> "MEASURE", qubit |-> <<[str |-> <<"_">>]>>,
       target |-> <<[str |-> <<"_">>]>>, fidelity |-> <<>>, duration |-> <<>>]>>

graph_make_measure_gates ==
    <<MeasureInfo(Supported1QGate.MEASURE, Some(Underscore), Some(Underscore), None, None),
      MeasureInfo(Supported1QGate.MEASURE, Some(Underscore), None, None, None)>>

RxAngles == <<"0.0", "pi", "-pi", "pi/2", "-pi/2">>

graph_make_rx_gates ==
    [i \in 1..Len(RxAngles) |->
        GateInfo(Supported1QGate.RX, <<PyFloat(RxAngles[i])>>, <<Underscore>>, None, None)]

graph_make_rz_gates == <<GateInfo(Supported1QGate.RZ, <<Theta>>, <<Underscore>>, None, None)>>

graph_make_wildcard_1q_gates == <<GateInfo("_", <<Underscore>>, <<Underscore>>, None, None)>>

\* [raised, ret]
graph_transform_qubit_operation_to_gates(operation_name) ==
    IF operation_name = Supported1QGate.I THEN [raised |-> "None", ret |-> graph_make_i_gates]
    ELSE IF operation_name = Supported1QGate.RX THEN [raised |-> "None", ret |-> graph_make_rx_gates]
    ELSE IF operation_name = Supported1QGate.RZ THEN [raised |-> "None", ret |-> graph_make_rz_gates]
    ELSE IF operation_name = Supported1QGate.MEASURE
         THEN [raised |-> "None", ret |-> graph_make_measure_gates]
    ELSE IF operation_name = Supported1QGate.WILDCARD
         THEN [raised |-> "None", ret |-> graph_make_wildcard_1q_gates]
    ELSE [raised |-> "GraphGateError", ret |-> <<>>]

graph_make_cz_gates == <<GateInfo(Supported2QGate.CZ, <<>>, <<Underscore, Underscore>>, None, None)>>
graph_make_iswap_gates ==
    <<GateInfo(Supported2QGate.ISWAP, <<>>, <<Underscore, Underscore>>, None, None)>>
graph_make_cphase_gates ==
    <<GateInfo(Supported2QGate.CPHASE, <<Theta>>, <<Underscore, Underscore>>, None, None)>>
graph_make_xy_gates ==
    <<GateInfo(Supported2QGate.XY, <<Theta>>, <<Underscore, Underscore>>, None, None)>>
graph_make_wildcard_2q_gates ==
    <<GateInfo("_", <<Underscore>>, <<Underscore, Underscore>>, None, None)>>

graph_transform_edge_operation_to_gates(operation_name) ==
    IF operation_name = Supported2QGate.CZ THEN [raised |-> "None", ret |-> graph_make_cz_gates]
    ELSE IF operation_name = Supported2QGate.ISWAP
         THEN [raised |-> "None", ret |-> graph_make_iswap_gates]
    ELSE IF operation_name = Supported2QGate.CPHASE
         THEN [raised |-> "None", ret |-> graph_make_cphase_gates]
    ELSE IF operation_name = Supported2QGate.XY THEN [raised |-> "None", ret |-> graph_make_xy_gates]
    ELSE IF operation_name = Supported2QGate.WILDCARD
         THEN [raised |-> "None", ret |-> graph_make_wildcard_2q_gates]
    ELSE [raised |-> "GraphGateError", ret |-> <<>>]

\* for gate in names: gates.extend(transform(gate)), as [raised, ret];
\* kind is "1Q" or "2Q"
RECURSIVE ExtendAll(_, _, _)
ExtendAll(kind, names, acc) ==
    IF Len(names) = 0 THEN [raised |-> "None", ret |-> acc]
    ELSE LET t == IF kind = "1Q" THEN graph_transform_qubit_operation_to_gates(names[1])
                  ELSE graph_transform_edge_operation_to_gates(names[1])
         IN IF t.raised # "None" THEN [raised |-> t.raised, ret |-> <<>>]
            ELSE ExtendAll(kind, Tail(names), acc \o t.ret)

SetMax(S) == CHOOSE m \in S : \A x \in S : x <= m

\* all_qubits = list(range(max(graph.nodes) + 1)), and a variant that stops
\* one short of the largest node id
all_qubits_short(graph) == 0..(SetMax(graph.nodes) - 1)
all_qubits(graph) == 0..SetMax(graph.nodes)

\* for i in all_qubits, from i on: add_qubit, then set the entry's gates and dead flag
RECURSIVE AddGraphQubits(_, _, _, _)
AddGraphQubits(dev, i, graph, qubit_gates) ==
    IF i \notin all_qubits(graph) THEN dev
    ELSE LET added == add_qubit(dev, i)
             qubit == [added.ret EXCEPT !.gates = qubit_gates, !.dead = (i \notin graph.nodes)]
         IN AddGraphQubits(
                [added.device EXCEPT !.qubits = DictSet(added.device.qubits, PyStr(Str(i)), qubit)],
                i + 1, graph, qubit_gates)

\* for a, b in graph.edges: add_edge, then set the entry's gates
RECURSIVE AddGraphEdges(_, _, _)
AddGraphEdges(dev, edges, edge_gates) ==
    IF Len(edges) = 0 THEN dev
    ELSE LET a == edges[1][1]
             b == edges[1][2]
             added == add_edge(dev, a, b)
             edge == [added.ret EXCEPT !.gates = edge_gates]
         IN AddGraphEdges(
                [added.device EXCEPT
                    !.edges = DictSet(added.device.edges, PyStr(_make_edge_id(a, b)), edge)],
                Tail(edges), edge_gates)

\* an absent (None) or empty list of names is replaced by the default
OrDefault(names, default) == IF names = None \/ names = Some(<<>>) THEN default ELSE names[1]

\* compiler_isa_from_graph: [raised, ret]. graph is [nodes: set, edges: the
\* sequence of pairs graph.edges reports]; gates_1q and gates_2q are Optional.
compiler_isa_from_graph(graph, gates_1q, gates_2q) ==
    LET g1 == OrDefault(gates_1q, DEFAULT_1Q_GATES)
        g2 == OrDefault(gates_2q, DEFAULT_2Q_GATES)
        qubit_gates == ExtendAll("1Q", g1, <<>>)
        edge_gates == ExtendAll("2Q", g2, <<>>)
    IN IF qubit_gates.raised # "None" THEN [raised |-> qubit_gates.raised, ret |-> None]
       \* max(graph.nodes) of a graph without nodes
       ELSE IF graph.nodes = {} THEN [raised |-> "ValueError", ret |-> None]
       ELSE IF edge_gates.raised # "None" THEN [raised |-> edge_gates.raised, ret |-> None]
       ELSE LET d1 == AddGraphQubits(CompilerISA, 0, graph, qubit_gates.ret)
            IN [raised |-> "None", ret |-> AddGraphEdges(d1, graph.edges, edge_gates.ret)]

\* nx.from_edgelist(edgelist): the nodes are the endpoints, the edges the
\* unordered pairs, each once
from_edgelist(edgelist) ==
    [nodes |-> UNION {{edgelist[i][1], edgelist[i][2]} : i \in 1..Len(edgelist)},
     edges |-> {{edgelist[i][1], edgelist[i][2]} : i \in 1..Len(edgelist)}]

\* a graph of the edges that are not dead
compiler_isa_to_graph_live(compiler_isa) ==
    LET Live(entry) == ~entry.val.dead
        live == SelectSeq(compiler_isa.edges, Live)
    IN from_edgelist([i \in 1..Len(live) |-> live[i].val.ids])

compiler_isa_to_graph(compiler_isa) ==
    from_edgelist([i \in 1..Len(compiler_isa.edges) |-> compiler_isa.edges[i].val.ids])

(***************************************************************************)
(* device/qcs.py: the vendor (QCS) transformer.                            *)
(***************************************************************************)
PERFECT_FIDELITY == PyFloat("1e0")
PERFECT_DURATION == PyFloat("1/100")

_operation_names_to_compiler_fidelity_default ==
    [CZ |-> PyFloat("0.89"), ISWAP |-> PyFloat("0.90"), CPHASE |-> PyFloat("0.85"),
     XY |-> PyFloat("0.86"), RX |-> PyFloat("0.95"), MEASURE |-> PyFloat("0.90")]

_operation_names_to_compiler_duration_default ==
    [CZ |-> PyInt(200), ISWAP |-> PyInt(200), CPHASE |-> PyInt(200), XY |-> PyInt(200),
     RX |-> PyInt(50), MEASURE |-> PyInt(2000)]

\* for characteristic in characteristics: if characteristic.name == name:
\* fidelity = characteristic.value; break
RECURSIVE FirstNamed(_, _, _)
FirstNamed(characteristics, name, default) ==
    IF Len(characteristics) = 0 THEN default
    ELSE IF characteristics[1].name = name THEN characteristics[1].value
    ELSE FirstNamed(Tail(characteristics), name, default)

qcs_make_measure_gates(node_id, characteristics) ==
    LET duration == _operation_names_to_compiler_duration_default[Supported1QGate.MEASURE]
        fidelity == FirstNamed(characteristics, "fRO",
                        _operation_names_to_compiler_fidelity_default[Supported1QGate.MEASURE])
    IN <<MeasureInfo(Supported1QGate.MEASURE, Some(PyStr(Str(node_id))), Some(Underscore),
                     Some(fidelity), Some(duration)),
         MeasureInfo(Supported1QGate.MEASURE, Some(PyStr(Str(node_id))), None,
                     Some(fidelity), Some(duration))>>

qcs_make_rx_gates(node_id, characteristics) ==
    LET default_duration == _operation_names_to_compiler_duration_default[Supported1QGate.RX]
        fidelity == FirstNamed(characteristics, "f1QRB",
                        _operation_names_to_compiler_fidelity_default[Supported1QGate.RX])
    IN <<GateInfo(Supported1QGate.RX, <<PyFloat("0.0")>>, <<PyInt(node_id)>>,
                  Some(PERFECT_FIDELITY), Some(default_duration))>>
       \o [i \in 1..(Len(RxAngles) - 1) |->
             GateInfo(Supported1QGate.RX, <<PyFloat(RxAngles[i + 1])>>, <<PyInt(node_id)>>,
                      Some(fidelity), Some(default_duration))]

qcs_make_rz_gates(node_id) ==
    <<GateInfo(Supported1QGate.RZ, <<Underscore>>, <<PyInt(node_id)>>,
               Some(PERFECT_FIDELITY), Some(PERFECT_DURATION))>>

qcs_make_wildcard_1q_gates(node_id) ==
    <<GateInfo("_", <<Underscore>>, <<PyInt(node_id)>>,
               Some(PERFECT_FIDELITY), Some(PERFECT_DURATION))>>

\* [raised, ret]
qcs_transform_qubit_operation_to_gates(operation_name, node_id, characteristics) ==
    IF operation_name = Supported1QGate.RX
    THEN [raised |-> "None", ret |-> qcs_make_rx_gates(node_id, characteristics)]
    ELSE IF operation_name = Supported1QGate.RZ
         THEN [raised |-> "None", ret |-> qcs_make_rz_gates(node_id)]
    ELSE IF operation_name = Supported1QGate.MEASURE
         THEN [raised |-> "None", ret |-> qcs_make_measure_gates(node_id, characteristics)]
    ELSE IF operation_name = Supported1QGate.WILDCARD
         THEN [raised |-> "None", ret |-> qcs_make_wildcard_1q_gates(node_id)]
    ELSE IF operation_name \in {"I", "RESET"} THEN [raised |-> "None", ret |-> <<>>]
    ELSE [raised |-> "QCSISAParseError", ret |-> <<>>]

qcs_make_cz_gates(characteristics) ==
    <<GateInfo(Supported2QGate.CZ, <<>>, <<Underscore, Underscore>>,
               Some(FirstNamed(characteristics, "fCZ",
                        _operation_names_to_compiler_fidelity_default[Supported2QGate.CZ])),
               Some(_operation_names_to_compiler_duration_default[Supported2QGate.CZ]))>>

qcs_make_iswap_gates(characteristics) ==
    <<GateInfo(Supported2QGate.ISWAP, <<>>, <<Underscore, Underscore>>,
               Some(FirstNamed(characteristics, "fISWAP",
                        _operation_names_to_compiler_fidelity_default[Supported2QGate.ISWAP])),
               Some(_operation_names_to_compiler_duration_default[Supported2QGate.ISWAP]))>>

\* the capability made for CPHASE carries the operator of Supported2QGate.ISWAP
qcs_make_cphase_gates(characteristics) ==
    <<GateInfo(Supported2QGate.ISWAP, <<Theta>>, <<Underscore, Underscore>>,
               Some(FirstNamed(characteristics, "fCPHASE",
                        _operation_names_to_compiler_fidelity_default[Supported2QGate.CPHASE])),
               Some(_operation_names_to_compiler_duration_default[Supported2QGate.CPHASE]))>>

qcs_make_xy_gates(characteristics) ==
    <<GateInfo(Supported2QGate.XY, <<Theta>>, <<Underscore, Underscore>>,
               Some(FirstNamed(characteristics, "fXY",
                        _operation_names_to_compiler_fidelity_default[Supported2QGate.XY])),
               Some(_operation_names_to_compiler_duration_default[Supported2QGate.XY]))>>

qcs_make_wildcard_2q_gates ==
    <<GateInfo("_", <<Underscore>>, <<Underscore, Underscore>>,
               Some(PERFECT_FIDELITY), Some(PERFECT_DURATION))>>

qcs_transform_edge_operation_to_gates(operation_name, characteristics) ==
    IF operation_name = Supported2QGate.CZ
    THEN [raised |-> "None", ret |-> qcs_make_cz_gates(characteristics)]
    ELSE IF operation_name = Supported2QGate.ISWAP
         THEN [raised |-> "None", ret |-> qcs_make_iswap_gates(characteristics)]
    ELSE IF operation_name = Supported2QGate.CPHASE
         THEN [raised |-> "None", ret |-> qcs_make_cphase_gates(characteristics)]
    ELSE IF operation_name = Supported2QGate.XY
         THEN [raised |-> "None", ret |-> qcs_make_xy_gates(characteristics)]
    ELSE IF operation_name = Supported2QGate.WILDCARD
         THEN [raised |-> "None", ret |-> qcs_make_wildcard_2q_gates]
    ELSE [raised |-> "QCSISAParseError", ret |-> <<>>]

\* for node in isa.architecture.nodes: add_qubit(device, node.node_id)
RECURSIVE AddQcsNodes(_, _)
AddQcsNodes(dev, nodes) ==
    IF Len(nodes) = 0 THEN dev
    ELSE AddQcsNodes(add_qubit(dev, nodes[1].node_id).device, Tail(nodes))

\* for edge in isa.architecture.edges: add_edge(device, edge.node_ids[0], edge.node_ids[1])
RECURSIVE AddQcsEdges(_, _)
AddQcsEdges(dev, edges) ==
    IF Len(edges) = 0 THEN dev
    ELSE AddQcsEdges(add_edge(dev, edges[1].node_ids[1], edges[1].node_ids[2]).device, Tail(edges))

\* the (operation, site) pairs in the order the two nested loops visit them
RECURSIVE OperationSites(_)
OperationSites(instructions) ==
    IF Len(instructions) = 0 THEN <<>>
    ELSE [i \in 1..Len(instructions[1].sites) |->
             [operation |-> instructions[1], site |-> instructions[1].sites[i]]]
         \o OperationSites(Tail(instructions))

\* One pass of the loop body for (operation, site): [raised, device, qseen, eseen].
\* qseen and eseen are qubit_operations_seen and edge_operations_seen, as
\* sets of <<qubit id, name>> and <<edge id, name>>.
QcsSiteStep(dev, qseen, eseen, operation, site) ==
    LET same == [raised |-> "None", device |-> dev, qseen |-> qseen, eseen |-> eseen]
        fail(e) == [raised |-> e, device |-> dev, qseen |-> qseen, eseen |-> eseen]
    IN IF operation.node_count = 1
       THEN IF Len(site.node_ids) # 1 THEN fail("QCSISAParseError")
            ELSE LET operation_qubit == get_qubit(dev, site.node_ids[1])
                 IN IF operation_qubit = None THEN fail("QCSISAParseError")
                    ELSE LET q == operation_qubit[1]
                             t == qcs_transform_qubit_operation_to_gates(
                                      operation.name, q.id, site.characteristics)
                         IN IF <<q.id, operation.name>> \in qseen THEN same
                            ELSE IF t.raised # "None" THEN fail(t.raised)
                            ELSE [raised |-> "None",
                                  device |-> [dev EXCEPT !.qubits =
                                      DictSet(dev.qubits, PyStr(Str(site.node_ids[1])),
                                              [q EXCEPT !.gates = q.gates \o t.ret])],
                                  qseen |-> qseen \cup {<<q.id, operation.name>>},
                                  eseen |-> eseen]
       ELSE IF operation.node_count = 2
       \* a site with another number of ids than 2 goes on: the error is built and not raised
       THEN IF Len(site.node_ids) < 2 THEN fail("IndexError")
            ELSE LET operation_edge == get_edge(dev, site.node_ids[1], site.node_ids[2])
                     edge_id == _make_edge_id(site.node_ids[1], site.node_ids[2])
                 IN IF operation_edge = None THEN fail("QCSISAParseError")
                    ELSE LET e == operation_edge[1]
                             t == qcs_transform_edge_operation_to_gates(
                                      operation.name, site.characteristics)
                         IN IF <<edge_id, operation.name>> \in eseen THEN same
                            ELSE IF t.raised # "None" THEN fail(t.raised)
                            ELSE [raised |-> "None",
                                  device |-> [dev EXCEPT !.edges =
                                      DictSet(dev.edges, PyStr(edge_id),
                                              [e EXCEPT !.gates = e.gates \o t.ret])],
                                  qseen |-> qseen,
                                  eseen |-> eseen \cup {<<edge_id, operation.name>>}]
       ELSE fail("QCSISAParseError")

\* a loop that forgets the operations seen: every declaration extends the gates
RECURSIVE QcsLoopForget(_, _, _, _)
QcsLoopForget(dev, qseen, eseen, pairs) ==
    IF Len(pairs) = 0 THEN [raised |-> "None", ret |-> dev]
    ELSE LET r == QcsSiteStep(dev, {}, {}, pairs[1].operation, pairs[1].site)
         IN IF r.raised # "None" THEN [raised |-> r.raised, ret |-> None]
            ELSE QcsLoopForget(r.device, {}, {}, Tail(pairs))

RECURSIVE QcsLoop(_, _, _, _)
QcsLoop(dev, qseen, eseen, pairs) ==
    IF Len(pairs) = 0 THEN [raised |-> "None", ret |-> dev]
    ELSE LET r == QcsSiteStep(dev, qseen, eseen, pairs[1].operation, pairs[1].site)
         IN IF r.raised # "None" THEN [raised |-> r.raised, ret |-> None]
            ELSE QcsLoop(r.device, r.qseen, r.eseen, Tail(pairs))

\* _transform_qcs_isa_to_compiler_isa: [raised, ret]
_transform_qcs_isa_to_compiler_isa(isa) ==
    LET d1 == AddQcsNodes(CompilerISA, isa.architecture.nodes)
        d2 == AddQcsEdges(d1, isa.architecture.edges)
    IN QcsLoop(d2, {}, {}, OperationSites(isa.instructions))

(***************************************************************************)
(* device/_base.py: gates_in_isa.                                          *)
(***************************************************************************)
\* One pass of the inner loop over q.gates: what the gate does to the result,
\* [do |-> "append", gate] or [do |-> "continue"] or [do |-> "raise", raised].
QubitGateStep(gate, q) ==
    IF gate.operator \in {Supported1QGate.I, Supported1QGate.RX, Supported1QGate.RZ}
    THEN IF gate.type # "GateInfo" THEN [do |-> "raise", raised |-> "AssertionError"]
         ELSE IF Len(gate.parameters) > 0 /\ gate.parameters[1] = PyFloat("0.0")
              THEN [do |-> "continue"]
         ELSE LET parameters ==
                      IF /\ gate.operator = Supported1QGate.RZ
                         /\ Len(gate.parameters) = 1
                         /\ gate.parameters[1] = Underscore
                      THEN <<Parameter(Theta)>>
                      ELSE [i \in 1..Len(gate.parameters) |->
                               IF "str" \in DOMAIN gate.parameters[i]
                               THEN Parameter(gate.parameters[i])
                               ELSE gate.parameters[i]]
              IN [do |-> "append", gate |-> Gate(gate.operator, parameters, <<q.id>>)]
    ELSE IF gate.operator = Supported1QGate.MEASURE THEN [do |-> "continue"]
    ELSE [do |-> "raise", raised |-> "ValueError"]

\* for gate in q.gates, from the i-th on: [raised, ret]
RECURSIVE QubitGates(_, _, _)
QubitGates(q, i, acc) ==
    IF i > Len(q.gates) THEN [raised |-> "None", ret |-> acc]
    ELSE LET step == QubitGateStep(q.gates[i], q)
         IN IF step.do = "raise" THEN [raised |-> step.raised, ret |-> <<>>]
            ELSE IF step.do = "append" THEN QubitGates(q, i + 1, Append(acc, step.gate))
            ELSE QubitGates(q, i + 1, acc)

\* for _qubit_id, q in isa.qubits.items(), from the i-th entry on
RECURSIVE QubitsLoop(_, _, _)
QubitsLoop(qubits, i, acc) ==
    IF i > Len(qubits) THEN [raised |-> "None", ret |-> acc]
    ELSE LET q == qubits[i].val
         IN IF q.dead THEN QubitsLoop(qubits, i + 1, acc)
            ELSE LET r == QubitGates(q, 1, acc)
                 IN IF r.raised # "None" THEN r ELSE QubitsLoop(qubits, i + 1, r.ret)

Reverse(s) == [i \in 1..Len(s) |-> s[Len(s) + 1 - i]]
Both(name, params, targets) == <<Gate(name, params, targets), Gate(name, params, Reverse(targets))>>

\* The gates one live edge contributes: the first operator of the chain
\* CZ, ISWAP, CPHASE, XY, WILDCARD found among the edge's operators decides,
\* and with none found the edge contributes nothing (a warning is logged).
EdgeGates(e) ==
    LET operators == {e.gates[i].operator : i \in 1..Len(e.gates)}
        targets == e.ids
    IN IF Supported2QGate.CZ \in operators THEN Both("CZ", <<>>, targets)
       ELSE IF Supported2QGate.ISWAP \in operators THEN Both("ISWAP", <<>>, targets)
       ELSE IF Supported2QGate.CPHASE \in operators THEN Both("CPHASE", <<THETA>>, targets)
       ELSE IF Supported2QGate.XY \in operators THEN Both("XY", <<THETA>>, targets)
       ELSE IF Supported2QGate.WILDCARD \in operators THEN Both("_", Underscore, targets)
       ELSE <<>>

\* for edge_id, e in isa.edges.items(), from the i-th entry on
RECURSIVE EdgesLoopNoDeadCheck(_, _, _)
EdgesLoopNoDeadCheck(edges, i, acc) ==
    IF i > Len(edges) THEN acc
    ELSE EdgesLoopNoDeadCheck(edges, i + 1, acc \o EdgeGates(edges[i].val))
RECURSIVE EdgesLoop(_, _, _)
EdgesLoop(edges, i, acc) ==
    IF i > Len(edges) THEN acc
    ELSE LET e == edges[i].val
         IN IF e.dead THEN EdgesLoop(edges, i + 1, acc)
            ELSE EdgesLoop(edges, i + 1, acc \o EdgeGates(e))

\* gates_in_isa: [raised, ret]
gates_in_isa(isa) ==
    LET one == QubitsLoop(isa.qubits, 1, <<>>)
    IN IF one.raised # "None" THEN [raised |-> one.raised, ret |-> <<>>]
       ELSE [raised |-> "None", ret |-> EdgesLoop(isa.edges, 1, one.ret)]

(***************************************************************************)
(* device/compiler.py: CompilerDevice, a device that holds a CompilerISA.  *)
(***************************************************************************)
\* sorted(xs) of a list of ints
RECURSIVE Insert(_, _)
Insert(x, xs) == IF Len(xs) = 0 THEN <<x>>
                 ELSE IF x < xs[1] THEN <<x>> \o xs
                 ELSE <<xs[1]>> \o Insert(x, Tail(xs))
RECURSIVE Sorted(_)
Sorted(xs) == IF Len(xs) = 0 THEN <<>> ELSE Insert(xs[1], Sorted(Tail(xs)))

\* CompilerDevice.qubits: sorted([int(node_id) for node_id, node in self._isa.qubits.items()])
CompilerDevice_qubits(isa) ==
    Sorted([i \in 1..Len(isa.qubits) |-> ParseInt(isa.qubits[i].key.str).ret])

\* CompilerDevice.qubit_topology
CompilerDevice_qubit_topology(isa) == compiler_isa_to_graph(isa)

(***************************************************************************)
(* api/_compiler.py: the readout sources of a program.                     *)
(* A program is a sequence of instructions: Declare(name, memory_size),    *)
(* Measurement(qubit, classical_reg) with classical_reg None or a          *)
(* MemoryReference, and gates.                                             *)
(***************************************************************************)
MemoryReference(name, offset) == [name |-> name, offset |-> offset]
Declare(name, memory_size) == [kind |-> "Declare", name |-> name, memory_size |-> memory_size]
Measurement(qubit, classical_reg) ==
    [kind |-> "Measurement", qubit |-> qubit, classical_reg |-> classical_reg]
GateInstruction == [kind |-> "Gate"]

\* a scan that keeps the size of the last declaration of `ro` and never raises
RECURSIVE RoSizeOfLast(_, _)
RoSizeOfLast(program, ro_size) ==
    IF Len(program) = 0 THEN [raised |-> "None", ro_size |-> ro_size]
    ELSE IF program[1].kind = "Declare" /\ program[1].name = "ro"
         THEN RoSizeOfLast(Tail(program), Some(program[1].memory_size))
    ELSE RoSizeOfLast(Tail(program), ro_size)

\* the first loop, from ro_size on: [raised, ro_size]; a second declaration
\* of `ro` raises ValueError (multiple places where `ro` is declared)
RECURSIVE RoSize(_, _)
RoSize(program, ro_size) ==
    IF Len(program) = 0 THEN [raised |-> "None", ro_size |-> ro_size]
    ELSE IF program[1].kind = "Declare" /\ program[1].name = "ro"
         THEN IF ro_size # None THEN [raised |-> "ValueError: multiple ro", ro_size |-> ro_size]
              ELSE RoSize(Tail(program), Some(program[1].memory_size))
    ELSE RoSize(Tail(program), ro_size)

\* a loop that keeps the first source measured into an offset
RECURSIVE RoSourcesKeepFirst(_, _, _)
RoSourcesKeepFirst(program, ro_sources, warnings) ==
    IF Len(program) = 0
    THEN [raised |-> "None", ro_sources |-> ro_sources, warnings |-> warnings]
    ELSE LET instr == program[1]
         IN IF instr.kind = "Measurement" /\ instr.classical_reg # <<>>
            THEN LET reg == instr.classical_reg[1]
                 IN IF DictHas(ro_sources, [int |-> reg.offset])
                    THEN RoSourcesKeepFirst(Tail(program), ro_sources,
                             Append(warnings, [offset |-> reg.offset, to |-> instr.qubit]))
                    ELSE RoSourcesKeepFirst(Tail(program),
                             DictSet(ro_sources, [int |-> reg.offset],
                                     <<[name |-> "ro", offset |-> reg.offset],
                                       [str |-> <<"q">> \o Str(instr.qubit)]>>),
                             warnings)
            ELSE RoSourcesKeepFirst(Tail(program), ro_sources, warnings)

\* the second loop: [raised, ro_sources, warnings]. ro_sources is the dict from
\* offset to (MemoryReference, "q<index>"); warnings are the overwrites logged
RECURSIVE RoSources(_, _, _)
RoSources(program, ro_sources, warnings) ==
    IF Len(program) = 0
    THEN [raised |-> "None", ro_sources |-> ro_sources, warnings |-> warnings]
    ELSE LET instr == program[1]
         IN IF instr.kind = "Measurement" /\ instr.classical_reg # None
            THEN LET q == instr.qubit
                     reg == instr.classical_reg[1]
                     offset == reg.offset
                 IN IF reg.name # "ro"
                    THEN [raised |-> "AssertionError", ro_sources |-> ro_sources,
                          warnings |-> warnings]
                    ELSE RoSources(Tail(program),
                             DictSet(ro_sources, PyInt(offset),
                                     <<MemoryReference("ro", offset), PyStr(<<"q">> \o Str(q))>>),
                             IF DictHas(ro_sources, PyInt(offset))
                             THEN Append(warnings, [offset |-> offset, to |-> q])
                             ELSE warnings)
            ELSE RoSources(Tail(program), ro_sources, warnings)

\* a collection that returns one entry per recorded source instead of one per
\* cell of `ro`
CollectBySources(program) ==
    LET first == RoSize(program, None)
        second == RoSources(program, <<>>, <<>>)
        failed(e, sources, warnings) ==
            [raised |-> e, ret |-> None, ro_sources |-> sources, warnings |-> warnings]
    IN IF first.raised # "None" THEN failed(first.raised, <<>>, <<>>)
       ELSE IF second.raised # "None"
            THEN failed(second.raised, second.ro_sources, second.warnings)
       ELSE IF first.ro_size # None /\ first.ro_size[1] # 0
            THEN [raised |-> "None",
                  ret |-> [i \in 1..Len(second.ro_sources) |->
                              DictGet(second.ro_sources, PyInt(i - 1))],
                  ro_sources |-> second.ro_sources, warnings |-> second.warnings]
       ELSE IF Len(second.ro_sources) > 0
            THEN failed("ValueError: no ro", second.ro_sources, second.warnings)
       ELSE [raised |-> "None", ret |-> <<>>,
             ro_sources |-> second.ro_sources, warnings |-> second.warnings]

\* _collect_classical_memory_write_locations: [raised, ret, ro_sources, warnings]
_collect_classical_memory_write_locations(program) ==
    LET first == RoSize(program, None)
        second == RoSources(program, <<>>, <<>>)
        failed(e, sources, warnings) ==
            [raised |-> e, ret |-> None, ro_sources |-> sources, warnings |-> warnings]
    IN IF first.raised # "None" THEN failed(first.raised, <<>>, <<>>)
       ELSE IF second.raised # "None"
            THEN failed(second.raised, second.ro_sources, second.warnings)
       ELSE IF first.ro_size # None /\ first.ro_size[1] # 0
            THEN [raised |-> "None",
                  ret |-> [i \in 1..first.ro_size[1] |-> DictGet(second.ro_sources, PyInt(i - 1))],
                  ro_sources |-> second.ro_sources, warnings |-> second.warnings]
       ELSE IF Len(second.ro_sources) > 0
            THEN failed("ValueError: no ro", second.ro_sources, second.warnings)
       ELSE [raised |-> "None", ret |-> <<>>,
             ro_sources |-> second.ro_sources, warnings |-> second.warnings]

(***************************************************************************)
(* Initial state: CompilerISA(), nothing called on it.                     *)
(***************************************************************************)
Constructed == [call |-> "CompilerISA", arg |-> None, raised |-> "None"]

Init ==
    /\ src = Constructed
    /\ device = CompilerISA
    /\ call = "none"
    /\ arg = None
    /\ ret = None

(***************************************************************************)
(* The accessor API on one device (SpecDevice).                            *)
(***************************************************************************)
AddQubit ==
    /\ src = Constructed
    /\ \E n \in NodeIds :
            /\ (DictHas(device.qubits, PyStr(Str(n))) \/ Len(device.qubits) < MaxDevQubits)
            /\ call' = "add_qubit"
            /\ arg' = <<n>>
            /\ device' = add_qubit(device, n).device
            /\ ret' = Some(add_qubit(device, n).ret)
            /\ UNCHANGED src

GetQubit ==
    /\ src = Constructed
    /\ \E n \in NodeIds :
            /\ call' = "get_qubit"
            /\ arg' = <<n>>
            /\ ret' = get_qubit(device, n)
            /\ UNCHANGED <<src, device>>

AddEdge ==
    /\ src = Constructed
    /\ \E a \in NodeIds, b \in NodeIds :
            /\ (DictHas(device.edges, PyStr(_make_edge_id(a, b))) \/ Len(device.edges) < MaxDevEdges)
            /\ call' = "add_edge"
            /\ arg' = <<a, b>>
            /\ device' = add_edge(device, a, b).device
            /\ ret' = Some(add_edge(device, a, b).ret)
            /\ UNCHANGED src

GetEdge ==
    /\ src = Constructed
    /\ \E a \in NodeIds, b \in NodeIds :
            /\ call' = "get_edge"
            /\ arg' = <<a, b>>
            /\ ret' = get_edge(device, a, b)
            /\ UNCHANGED <<src, device>>

\* _make_edge_id applied to a pair of ids
MakeEdgeId ==
    /\ src = Constructed
    /\ \E a \in NodeIds, b \in NodeIds :
            /\ call' = "_make_edge_id"
            /\ arg' = <<a, b>>
            /\ ret' = _make_edge_id(a, b)
            /\ UNCHANGED <<src, device>>

\* _edge_ids_from_id applied to the key of a stored edge
EdgeIdsFromId ==
    /\ src = Constructed
    /\ \E i \in 1..Len(device.edges) :
            /\ call' = "_edge_ids_from_id"
            /\ arg' = <<device.edges[i].key.str>>
            /\ ret' = _edge_ids_from_id(device.edges[i].key.str)
            /\ UNCHANGED <<src, device>>

\* _make_edge_id, add_edge, get_edge and _edge_ids_from_id on one device
NextDevice == AddQubit \/ GetQubit \/ AddEdge \/ GetEdge \/ MakeEdgeId \/ EdgeIdsFromId

SpecDevice == Init /\ [][NextDevice]_vars

(***************************************************************************)
(* Properties of the edge keys (SpecDevice).                               *)
(***************************************************************************)
Min(a, b) == IF a <= b THEN a ELSE b
Max(a, b) == IF a <= b THEN b ELSE a

\* C6: the canonical edge key of (a, b) is the canonical edge key of (b, a),
\* so the entry add_edge(d, a, b) stores or finds is the entry
\* get_edge(d, b, a) returns, and get_edge(d, a, b) finds an entry exactly
\* when an edge on the same two ids was added, in either order.
C6_EdgeKeySymmetric ==
    /\ call = "_make_edge_id" => ret = _make_edge_id(arg[2], arg[1])
    /\ call = "add_edge" => get_edge(device, arg[2], arg[1]) = ret
    /\ call = "get_edge" =>
         /\ ret = get_edge(device, arg[2], arg[1])
         /\ (ret # None) <=> \E i \in 1..Len(device.edges) :
                                device.edges[i].val.ids = <<Min(arg[1], arg[2]), Max(arg[1], arg[2])>>

\* an edge added with the larger id first is found with the smaller id first
C6_Witness ==
    /\ call = "add_edge"
    /\ arg[1] > arg[2]
    /\ get_edge(device, arg[2], arg[1]) = ret
    /\ ret # None

\* C7: for non-negative ids a and b, parsing the canonical key of (a, b)
\* yields [min(a,b), max(a,b)] and the key of that pair is the same key; every
\* Edge stored by add_edge has ids equal to the parse of its own key.
C7_EdgeKeyRoundTrip ==
    /\ call = "_make_edge_id" =>
         LET parsed == _edge_ids_from_id(ret)
         IN /\ parsed.raised = "None"
            /\ parsed.ret = <<Min(arg[1], arg[2]), Max(arg[1], arg[2])>>
            /\ _make_edge_id(parsed.ret[1], parsed.ret[2]) = ret
    /\ call = "_edge_ids_from_id" =>
         /\ ret.raised = "None"
         /\ ret.ret = DictAt(device.edges, PyStr(arg[1])).ids
    /\ \A i \in 1..Len(device.edges) :
         _edge_ids_from_id(device.edges[i].key.str).ret = device.edges[i].val.ids

\* the key of an edge on 10 and 9, added in that order, parses to [9, 10]
C7_Witness ==
    /\ call = "_edge_ids_from_id"
    /\ arg[1] = <<"9", "-", "1", "0">>
    /\ ret.ret = <<9, 10>>
    /\ \E i \in 1..Len(device.edges) : device.edges[i].val.ids = <<9, 10>>

(***************************************************************************)
(* The graph path (SpecGraph): compiler_isa_from_graph on an input graph,  *)
(* then gates_in_isa and compiler_isa_to_graph on the ISA it returned.     *)
(***************************************************************************)
\* an nx.Graph over the nodes N: graph.edges reports each edge once, its
\* endpoints in either order (the edges are listed by ascending endpoints)
PairRank(p) == LET s == SortedPair(p[1], p[2]) IN <<s[1], s[2]>>
RankLess(p, q) == PairRank(p)[1] < PairRank(q)[1]
                  \/ (PairRank(p)[1] = PairRank(q)[1] /\ PairRank(p)[2] < PairRank(q)[2])
EdgeReports(N) ==
    {es \in UNION {[1..k -> {p \in N \X N : p[1] # p[2]}] : k \in 0..MaxEdges} :
        \A i \in 1..(Len(es) - 1) : RankLess(es[i], es[i + 1])}
Graphs == UNION {{[nodes |-> N, edges |-> es] : es \in EdgeReports(N)} : N \in SUBSET NodeIds}

\* the gate-name lists a caller passes: absent, empty, one name (supported
\* or not), or two names
GateLists1Q ==
    {None, Some(<<>>)}
    \cup {Some(<<n>>) : n \in {"I", "RX", "RZ", "MEASURE", "WILDCARD", "H"}}
    \cup {Some(<<"RZ", "H">>), Some(<<"MEASURE", "I">>)}
GateLists2Q ==
    {None, Some(<<>>)}
    \cup {Some(<<n>>) : n \in {"CZ", "ISWAP", "CPHASE", "XY", "WILDCARD", "CNOT"}}
    \cup {Some(<<"XY", "ISWAP">>), Some(<<"CZ", "CNOT">>)}

CompilerIsaFromGraph ==
    /\ src = Constructed
    /\ call = "none"
    /\ \E graph \in Graphs, gates_1q \in GateLists1Q, gates_2q \in GateLists2Q :
        LET r == compiler_isa_from_graph(graph, gates_1q, gates_2q)
        IN /\ src' = [call |-> "compiler_isa_from_graph",
                      arg |-> [graph |-> graph, gates_1q |-> gates_1q, gates_2q |-> gates_2q],
                      raised |-> r.raised]
           /\ device' = r.ret
           /\ UNCHANGED <<call, arg, ret>>

\* a gates_in_isa that drops the dead qubits from the ISA it reads
GatesInIsaDroppingDead ==
    /\ src.raised = "None"
    /\ call' = "gates_in_isa"
    /\ arg' = None
    /\ ret' = [raised |-> "None", ret |-> <<>>]
    /\ device' = [device EXCEPT !.qubits = SelectSeq(device.qubits, LAMBDA entry : ~entry.val.dead)]
    /\ UNCHANGED src

GatesInIsa ==
    /\ src.raised = "None"
    /\ call' = "gates_in_isa"
    /\ arg' = None
    /\ ret' = gates_in_isa(device)
    /\ UNCHANGED <<src, device>>

CompilerIsaToGraph ==
    /\ src.raised = "None"
    /\ call' = "compiler_isa_to_graph"
    /\ arg' = None
    /\ ret' = compiler_isa_to_graph(device)
    /\ UNCHANGED <<src, device>>

NextGraph == CompilerIsaFromGraph \/ GatesInIsa \/ CompilerIsaToGraph

SpecGraph == Init /\ [][NextGraph]_vars

(***************************************************************************)
(* Properties of the graph path (SpecGraph).                               *)
(***************************************************************************)
FromGraphReturned == src.call = "compiler_isa_from_graph" /\ src.raised = "None"

\* the undirected graph an input stands for
AsGraph(graph) ==
    [nodes |-> graph.nodes,
     edges |-> {{graph.edges[i][1], graph.edges[i][2]} : i \in 1..Len(graph.edges)}]

\* nx.is_isomorphic: a bijection of the nodes that maps edges onto edges
Isomorphic(g, h) ==
    /\ Cardinality(g.nodes) = Cardinality(h.nodes)
    /\ \E f \in [g.nodes -> h.nodes] :
         /\ \A u, v \in g.nodes : u # v => f[u] # f[v]
         /\ \A u, v \in g.nodes : ({u, v} \in g.edges) <=> ({f[u], f[v]} \in h.edges)

\* C1: for any input graph g, isolated nodes and gaps in the node ids
\* included, compiler_isa_to_graph(compiler_isa_from_graph(g)) is isomorphic
\* to g.
C1_RoundTripIsomorphic ==
    (FromGraphReturned /\ call = "compiler_isa_to_graph")
        => Isomorphic(AsGraph(src.arg.graph), ret)

\* C4: compiler_isa_from_graph creates one Qubit entry, keyed by str(i), for
\* every i from 0 up to and including the largest node id, and no other; the
\* entry is dead exactly when i is not a node of the graph.
C4_QubitEntries ==
    FromGraphReturned =>
        LET nodes == src.arg.graph.nodes
            top == CHOOSE m \in nodes : \A n \in nodes : n <= m
        IN /\ Len(device.qubits) = top + 1
           /\ \A i \in 0..top :
                \E k \in 1..Len(device.qubits) :
                    /\ device.qubits[k].key = PyStr(Str(i))
                    /\ device.qubits[k].val.id = i
                    /\ device.qubits[k].val.dead = (i \notin nodes)
                    /\ \A k2 \in 1..Len(device.qubits) :
                         device.qubits[k2].key = device.qubits[k].key => k2 = k
           /\ \A k \in 1..Len(device.qubits) :
                \E i \in 0..top : device.qubits[k].key = PyStr(Str(i))

\* a graph whose only nodes are 0 and 10: qubits 1 to 9 are present and dead
C4_Witness ==
    /\ FromGraphReturned
    /\ src.arg.graph.nodes = {0, 10}
    /\ Len(device.qubits) = 11
    /\ DictAt(device.qubits, PyStr(<<"9">>)).dead
    /\ ~DictAt(device.qubits, PyStr(<<"1", "0">>)).dead

\* C5: for every edge of the input graph, in whichever order its endpoints
\* are reported, there is exactly one Edge entry, with key
\* "min(a,b)-max(a,b)", ids [min(a,b), max(a,b)] and dead false, and there is
\* no other edge entry; so every 2Q key splits on "-" into two numbers, the
\* first smaller than the second.
C5_EdgeEntries ==
    FromGraphReturned =>
        LET reported == src.arg.graph.edges
        IN /\ Len(device.edges) = Len(reported)
           /\ \A i \in 1..Len(reported) :
                LET lo == Min(reported[i][1], reported[i][2])
                    hi == Max(reported[i][1], reported[i][2])
                IN \E k \in 1..Len(device.edges) :
                      /\ device.edges[k].key = PyStr(Str(lo) \o <<"-">> \o Str(hi))
                      /\ device.edges[k].val.ids = <<lo, hi>>
                      /\ device.edges[k].val.dead = FALSE
                      /\ \A k2 \in 1..Len(device.edges) :
                           device.edges[k2].key = device.edges[k].key => k2 = k
           /\ \A k \in 1..Len(device.edges) :
                LET parts == Split(device.edges[k].key.str, "-")
                IN /\ Len(parts) = 2
                   /\ ParseInt(parts[1]).raised = "None"
                   /\ ParseInt(parts[2]).raised = "None"
                   /\ ParseInt(parts[1]).ret < ParseInt(parts[2]).ret

\* the graph reports an edge as (10, 9) and the ISA holds it under "9-10"
C5_Witness ==
    /\ FromGraphReturned
    /\ \E i \in 1..Len(src.arg.graph.edges) : src.arg.graph.edges[i] = <<10, 9>>
    /\ DictHas(device.edges, PyStr(<<"9", "-", "1", "0">>))

(***************************************************************************)
(* The document path (SpecDict): an ISA parsed from a document that marks  *)
(* qubits and edges dead at will, as the test fixture compiler_isa does,   *)
(* then gates_in_isa on it.                                                *)
(***************************************************************************)
\* the gate lists of a document: the expansions of these gate names
DocGates1Q == {ExtendAll("1Q", names, <<>>).ret :
                  names \in {DEFAULT_1Q_GATES, <<"WILDCARD">>, <<>>}}
DocGates2Q == {ExtendAll("2Q", names, <<>>).ret :
                  names \in {DEFAULT_2Q_GATES, <<"ISWAP">>, <<"CPHASE">>, <<"XY">>,
                             <<"WILDCARD">>, <<>>}}

\* the ids of NodeIds in ascending order
RECURSIVE Ascending(_)
Ascending(S) == IF S = {} THEN <<>>
                ELSE LET m == CHOOSE x \in S : \A y \in S : x <= y
                     IN <<m>> \o Ascending(S \ {m})

\* the edges of a document, each named smaller id first
DocEdges == {es \in EdgeReports(NodeIds) : \A i \in 1..Len(es) : es[i][1] < es[i][2]}

\* a document: one record per id of NodeIds, those of deadq marked dead; one
\* record per pair of es under its canonical key, those of deade marked dead
Document(deadq, es, deade, g1, g2) ==
    LET ids == Ascending(NodeIds)
    IN [1Q |-> [i \in 1..Len(ids) |->
                  [key |-> Str(ids[i]),
                   val |-> [dead |-> IF ids[i] \in deadq THEN Some(TRUE) ELSE None,
                            gates |-> Some(g1)]]],
        2Q |-> [i \in 1..Len(es) |->
                  [key |-> _make_edge_id(es[i][1], es[i][2]),
                   val |-> [dead |-> IF i \in deade THEN Some(TRUE) ELSE None,
                            gates |-> Some(g2)]]]]

CompilerIsaFromDict ==
    /\ src = Constructed
    /\ call = "none"
    /\ \E deadq \in SUBSET NodeIds, es \in DocEdges, g1 \in DocGates1Q, g2 \in DocGates2Q :
        \E deade \in SUBSET (1..Len(es)) :
            LET data == Document(deadq, es, deade, g1, g2)
                r == _compiler_isa_from_dict(data)
            IN /\ src' = [call |-> "_compiler_isa_from_dict", arg |-> data, raised |-> r.raised]
               /\ device' = r.ret
               /\ UNCHANGED <<call, arg, ret>>

NextDict == CompilerIsaFromDict \/ GatesInIsa

SpecDict == Init /\ [][NextDict]_vars

(***************************************************************************)
(* The vendor path (SpecQcs): _transform_qcs_isa_to_compiler_isa on a QCS  *)
(* InstructionSetArchitecture, then gates_in_isa on the ISA it returned.   *)
(***************************************************************************)
QcsNode(n) == [node_id |-> n]
QcsEdge(a, b) == [node_ids |-> <<a, b>>]

\* the architecture declares the nodes 0 and 9 and, or not, the edge between
\* them (as 9, 0); node 10 is never declared
Architectures ==
    {[nodes |-> <<QcsNode(0), QcsNode(9)>>, edges |-> es] : es \in {<<>>, <<QcsEdge(9, 0)>>}}

OperationNames == {"RX", "RZ", "MEASURE", "WILDCARD", "I", "RESET",
                   "CZ", "ISWAP", "CPHASE", "XY", "H"}

\* the node ids of a site: none, one, two or three ids, declared or not
SiteNodeIds == {<<>>, <<0>>, <<10>>, <<0, 9>>, <<9, 0>>, <<0, 10>>, <<0, 9, 10>>}
CharacteristicLists == {<<>>}
Sites == {[node_ids |-> ids, characteristics |-> cs] :
             ids \in SiteNodeIds, cs \in CharacteristicLists}
SiteLists == UNION {[1..k -> Sites] : k \in 1..MaxSites}

\* an operation has a name, a node count and one or more sites; every name
\* comes with node count 1 and 2, and one operation with node count 3
Operations ==
    {[name |-> n, node_count |-> c, sites |-> ss] :
        n \in OperationNames, c \in {1, 2}, ss \in SiteLists}
    \cup {[name |-> "CZ", node_count |-> 3, sites |-> ss] : ss \in SiteLists}

InstructionLists == UNION {[1..k -> Operations] : k \in 0..MaxInstr}

TransformQcsIsa ==
    /\ src = Constructed
    /\ call = "none"
    /\ \E architecture \in Architectures, instructions \in InstructionLists :
        LET isa == [architecture |-> architecture, instructions |-> instructions]
            r == _transform_qcs_isa_to_compiler_isa(isa)
        IN /\ src' = [call |-> "_transform_qcs_isa_to_compiler_isa", arg |-> isa,
                      raised |-> r.raised]
           /\ device' = r.ret
           /\ UNCHANGED <<call, arg, ret>>

NextQcs == TransformQcsIsa \/ GatesInIsa

SpecQcs == Init /\ [][NextQcs]_vars

(***************************************************************************)
(* Properties of gates_in_isa.                                             *)
(***************************************************************************)
GatesReturned == call = "gates_in_isa" /\ ret.raised = "None"
Range(f) == {f[i] : i \in DOMAIN f}
\* the gate instances returned, and those that have the qubit q among their arguments
Returned == Range(ret.ret)
GatesOn(q) == {g \in Returned : q \in Range(g.qubits)}
QubitEntries == Range(DictValues(device.qubits))
EdgeEntries == Range(DictValues(device.edges))

\* C2: if qubit q is marked dead no returned gate has q among its
\* arguments, also when q lies on a live edge; if edge (a, b) is marked dead
\* no returned gate has the arguments (a, b) or (b, a).
C2_DeadMarkingAloneSuffices ==
    GatesReturned =>
        /\ \A q \in QubitEntries : q.dead => GatesOn(q.id) = {}
        /\ \A e \in EdgeEntries :
             e.dead => \A g \in Returned : g.qubits # e.ids /\ g.qubits # Reverse(e.ids)

\* C3: if qubit q is marked dead and every edge containing q is marked dead,
\* no returned gate has q among its arguments, whatever capabilities the dead
\* qubit and edges list.
C3_DeadQubitAndEdges ==
    GatesReturned =>
        \A q \in QubitEntries :
            (q.dead /\ \A e \in EdgeEntries : q.id \in Range(e.ids) => e.dead)
                => GatesOn(q.id) = {}

\* a dead qubit and a dead edge on it both list capabilities, and gates are
\* returned for the other sites
C3_Witness ==
    /\ GatesReturned
    /\ \E q \in QubitEntries, e \in EdgeEntries :
         /\ q.dead /\ e.dead /\ q.id \in Range(e.ids)
         /\ \A e2 \in EdgeEntries : q.id \in Range(e2.ids) => e2.dead
         /\ Len(q.gates) > 0 /\ Len(e.gates) > 0
         /\ \E e3 \in EdgeEntries : ~e3.dead /\ \E g \in Returned : g.qubits = e3.ids
         /\ \E g \in Returned : Len(g.qubits) = 1

\* the instance of a two-qubit operator on the targets
Instance2Q(op, targets) ==
    Gate(op, IF op \in {"CPHASE", "XY"} THEN <<THETA>> ELSE <<>>, targets)

\* C10: for every live edge (a, b) and every operator among CZ, ISWAP,
\* CPHASE, XY in the edge's capabilities, the instance on [a, b] and the one
\* on [b, a] are returned, also when the edge declares several operators.
C10_EveryDeclared2QOperator ==
    GatesReturned =>
        \A e \in EdgeEntries :
            ~e.dead =>
                \A op \in {"CZ", "ISWAP", "CPHASE", "XY"} \cap {c.operator : c \in Range(e.gates)} :
                    /\ Instance2Q(op, e.ids) \in Returned
                    /\ Instance2Q(op, Reverse(e.ids)) \in Returned

(***************************************************************************)
(* Properties of the unsupported and the dropped operators.                *)
(***************************************************************************)
QcsCalled == src.call = "_transform_qcs_isa_to_compiler_isa"
QcsReturned == QcsCalled /\ src.raised = "None"

\* the operator a capability made for the operation name carries
CapabilityOperator(name) == IF name = "WILDCARD" THEN "_" ELSE name
Operators(site) == {c.operator : c \in Range(site.gates)}

\* C8: no synthesis call returns a result that omits a requested operator.
\* Graph path: every requested name has a capability on every qubit and
\* edge of the returned ISA.  Vendor path: every operation declared for a
\* qubit or an edge has added a capability there, so the site lists at least
\* as many capabilities as operation names were declared for it.
\* gates_in_isa: every operator among the capabilities of a live qubit or
\* edge has a gate instance on that site.
C8_NoOperatorDropped ==
    /\ FromGraphReturned =>
         /\ \A q \in QubitEntries :
              \A n \in Range(OrDefault(src.arg.gates_1q, DEFAULT_1Q_GATES)) :
                  CapabilityOperator(n) \in Operators(q)
         /\ \A e \in EdgeEntries :
              \A n \in Range(OrDefault(src.arg.gates_2q, DEFAULT_2Q_GATES)) :
                  CapabilityOperator(n) \in Operators(e)
    /\ QcsReturned =>
         LET pairs == Range(OperationSites(src.arg.instructions))
         IN /\ \A q \in QubitEntries :
                 Len(q.gates) >= Cardinality({p.operation.name : p \in
                     {x \in pairs : x.operation.node_count = 1 /\ x.site.node_ids = <<q.id>>}})
            /\ \A e \in EdgeEntries :
                 Len(e.gates) >= Cardinality({p.operation.name : p \in
                     {x \in pairs : /\ x.operation.node_count = 2
                                    /\ Len(x.site.node_ids) >= 2
                                    /\ {x.site.node_ids[1], x.site.node_ids[2]} = Range(e.ids)}})
    /\ GatesReturned =>
         /\ \A q \in QubitEntries :
              ~q.dead => \A op \in Operators(q) :
                            \E g \in Returned : g.name = op /\ g.qubits = <<q.id>>
         /\ \A e \in EdgeEntries :
              ~e.dead => \A op \in Operators(e) :
                            \E g \in Returned : g.name = op /\ g.qubits = e.ids

Supported1QNames == {"I", "RX", "RZ", "MEASURE", "WILDCARD"}
Supported2QNames == {"CZ", "ISWAP", "CPHASE", "XY", "WILDCARD"}

\* C9: compiler_isa_from_graph raises GraphGateError and returns no ISA
\* whenever gates_1q holds a name outside {I, RX, RZ, MEASURE, WILDCARD} or
\* gates_2q a name outside {CZ, ISWAP, CPHASE, XY, WILDCARD}; the vendor path
\* raises QCSISAParseError for an edge operation with a name outside
\* {CZ, ISWAP, CPHASE, XY, WILDCARD}.
C9_UnknownOperatorRaises ==
    /\ src.call = "compiler_isa_from_graph" =>
         ((\/ Range(OrDefault(src.arg.gates_1q, DEFAULT_1Q_GATES)) \ Supported1QNames # {}
           \/ Range(OrDefault(src.arg.gates_2q, DEFAULT_2Q_GATES)) \ Supported2QNames # {})
             => (src.raised = "GraphGateError" /\ device = None))
    /\ QcsCalled =>
         ((\E i \in 1..Len(src.arg.instructions) :
              /\ src.arg.instructions[i].node_count = 2
              /\ src.arg.instructions[i].name \notin Supported2QNames)
             => src.raised = "QCSISAParseError")

(***************************************************************************)
(* Properties of the parse errors of the vendor path (SpecQcs).            *)
(***************************************************************************)
\* the (operation, site) pairs of the call made
QcsPairs == Range(OperationSites(src.arg.instructions))
\* the node ids and the node pairs the architecture declares
DeclaredNodes == {src.arg.architecture.nodes[i].node_id :
                     i \in 1..Len(src.arg.architecture.nodes)}
DeclaredPairs == {Range(src.arg.architecture.edges[i].node_ids) :
                     i \in 1..Len(src.arg.architecture.edges)}

\* C11: a site whose number of node ids differs from the operation's node
\* count (1 or 2) makes _transform_qcs_isa_to_compiler_isa raise
\* QCSISAParseError.
C11_SiteCardinalityMismatchRaises ==
    QcsCalled =>
        ((\E p \in QcsPairs : /\ p.operation.node_count \in {1, 2}
                              /\ Len(p.site.node_ids) # p.operation.node_count)
            => src.raised = "QCSISAParseError")

\* C12: a 1-node operation on a node the architecture does not declare, a
\* 2-node operation on a pair the architecture declares in neither order, and
\* an operation whose node count is neither 1 nor 2 make
\* _transform_qcs_isa_to_compiler_isa raise QCSISAParseError.
C12_UndeclaredSiteRaises ==
    QcsCalled =>
        ((\E p \in QcsPairs :
             \/ /\ p.operation.node_count = 1
                /\ Len(p.site.node_ids) = 1
                /\ p.site.node_ids[1] \notin DeclaredNodes
             \/ /\ p.operation.node_count = 2
                /\ Len(p.site.node_ids) = 2
                /\ Range(p.site.node_ids) \notin DeclaredPairs
             \/ p.operation.node_count \notin {1, 2})
            => src.raised = "QCSISAParseError")

\* the 2-node sites of the call all list two or more node ids
NoShortEdgeSite ==
    \A p \in QcsPairs : p.operation.node_count = 2 => Len(p.site.node_ids) >= 2

\* C12 for the calls in which every 2-node site lists two or more ids
C12_UndeclaredSiteRaises_NoShortEdgeSite ==
    (QcsCalled /\ NoShortEdgeSite) => C12_UndeclaredSiteRaises

\* C11 for the 1-node operations alone
C11_NodeCount1_NoShortEdgeSite ==
    (QcsCalled /\ NoShortEdgeSite) =>
        ((\E p \in QcsPairs : p.operation.node_count = 1 /\ Len(p.site.node_ids) # 1)
            => src.raised = "QCSISAParseError")

(***************************************************************************)
(* The vendor path with characteristics (SpecVendor):                      *)
(* _transform_qcs_isa_to_compiler_isa on a QCS ISA whose operations are    *)
(* well-formed and whose sites carry measured characteristics.             *)
(***************************************************************************)
Characteristic(name, value) == [name |-> name, value |-> PyFloat(value)]

\* a site's characteristics: none; every fidelity name measured twice, behind
\* a characteristic of another name; or the same names with other values, in
\* another order
Measured ==
    <<Characteristic("T1", "0.50"),
      Characteristic("f1QRB", "0.991"), Characteristic("fRO", "0.992"),
      Characteristic("fCZ", "0.993"), Characteristic("fISWAP", "0.994"),
      Characteristic("fCPHASE", "0.995"), Characteristic("fXY", "0.996"),
      Characteristic("fXY", "0.986"), Characteristic("fCPHASE", "0.985"),
      Characteristic("fISWAP", "0.984"), Characteristic("fCZ", "0.983"),
      Characteristic("fRO", "0.982"), Characteristic("f1QRB", "0.981")>>
Remeasured ==
    <<Characteristic("fXY", "0.976"), Characteristic("fCPHASE", "0.975"),
      Characteristic("fISWAP", "0.974"), Characteristic("fCZ", "0.973"),
      Characteristic("fRO", "0.972"), Characteristic("f1QRB", "0.971")>>
VendorCharacteristicLists == {<<>>, Measured, Remeasured}

\* the architecture: the nodes 0 and 9 and the edge between them, declared as (9, 0)
VendorArchitecture == [nodes |-> <<QcsNode(0), QcsNode(9)>>, edges |-> <<QcsEdge(9, 0)>>]

\* an operation on one site: a qubit operation on node 0 or 9, an edge
\* operation on the edge, its ids in either order
VendorOperations ==
    {[name |-> n, node_count |-> 1,
      sites |-> <<[node_ids |-> <<q>>, characteristics |-> cs]>>] :
        n \in {"RX", "RZ", "MEASURE", "WILDCARD"}, q \in {0, 9}, cs \in VendorCharacteristicLists}
    \cup
    {[name |-> n, node_count |-> 2,
      sites |-> <<[node_ids |-> ids, characteristics |-> cs]>>] :
        n \in {"CZ", "ISWAP", "CPHASE", "XY", "WILDCARD"}, ids \in {<<0, 9>>, <<9, 0>>},
        cs \in VendorCharacteristicLists}

VendorInstructionLists == UNION {[1..k -> VendorOperations] : k \in 0..MaxVendorOps}

TransformVendorIsa ==
    /\ src = Constructed
    /\ \E instructions \in VendorInstructionLists :
        LET isa == [architecture |-> VendorArchitecture, instructions |-> instructions]
            r == _transform_qcs_isa_to_compiler_isa(isa)
        IN /\ src' = [call |-> "_transform_qcs_isa_to_compiler_isa", arg |-> isa,
                      raised |-> r.raised]
           /\ device' = r.ret
           /\ UNCHANGED <<call, arg, ret>>

NextVendor == TransformVendorIsa

SpecVendor == Init /\ [][NextVendor]_vars

(***************************************************************************)
(* Properties of the vendor path with characteristics (SpecVendor).        *)
(***************************************************************************)
\* what identifies a declaration: the operation name, its node count and the
\* ids of the site, in any order
SiteKey(operation, site) == <<operation.name, operation.node_count, Range(site.node_ids)>>

\* the sites of one operation without those declared before: [sites, seen]
RECURSIVE KeepFirstSites(_, _, _)
KeepFirstSites(operation, sites, seen) ==
    IF Len(sites) = 0 THEN [sites |-> <<>>, seen |-> seen]
    ELSE LET k == SiteKey(operation, sites[1])
             rest == KeepFirstSites(operation, Tail(sites), seen \cup {k})
         IN IF k \in seen THEN rest
            ELSE [sites |-> <<sites[1]>> \o rest.sites, seen |-> rest.seen]

\* the instructions with the later duplicates of every declaration removed
RECURSIVE KeepFirst(_, _)
KeepFirst(instructions, seen) ==
    IF Len(instructions) = 0 THEN <<>>
    ELSE LET kept == KeepFirstSites(instructions[1], instructions[1].sites, seen)
         IN <<[instructions[1] EXCEPT !.sites = kept.sites]>>
            \o KeepFirst(Tail(instructions), kept.seen)

\* C13: a repeated declaration of an operation name for the same qubit, or
\* for the same edge in either id order, is ignored after the first: the
\* call returns what it returns for the input without the later duplicates,
\* so the first declaration's characteristics decide the fidelities.
C13_DuplicatesIgnored ==
    QcsCalled =>
        LET first == [src.arg EXCEPT !.instructions = KeepFirst(src.arg.instructions, {})]
            r == _transform_qcs_isa_to_compiler_isa(first)
        IN src.raised = r.raised /\ device = r.ret

\* CZ is declared for the edge as (0, 9) with one list of characteristics and
\* again as (9, 0) with another: the edge holds one CZ, with the first fCZ of
\* the first declaration
C13_Witness ==
    /\ QcsReturned
    /\ Len(src.arg.instructions) = 2
    /\ src.arg.instructions[1].name = "CZ" /\ src.arg.instructions[2].name = "CZ"
    /\ src.arg.instructions[1].sites[1] = [node_ids |-> <<0, 9>>, characteristics |-> Measured]
    /\ src.arg.instructions[2].sites[1] = [node_ids |-> <<9, 0>>, characteristics |-> Remeasured]
    /\ Len(device.edges) = 1
    /\ Len(device.edges[1].val.gates) = 1
    /\ device.edges[1].val.gates[1].fidelity = Some(PyFloat("0.993"))

\* the virtual instances: RX at the angle zero, RZ and the wildcards
Virtual(g) ==
    \/ g.operator = "RX" /\ g.parameters = <<PyFloat("0.0")>>
    \/ g.operator \in {"RZ", "_"}

\* C14: the zero-angle RX instance and every RZ and wildcard instance carry
\* PERFECT_FIDELITY and PERFECT_DURATION, whatever the site's characteristics.
C14_VirtualInstancesPerfect ==
    QcsReturned =>
        \A s \in QubitEntries \cup EdgeEntries :
            \A g \in Range(s.gates) :
                Virtual(g) => /\ g.fidelity = Some(PERFECT_FIDELITY)
                              /\ g.duration = Some(PERFECT_DURATION)

\* C14 for the fidelity alone
C14_VirtualInstancesPerfectFidelity ==
    QcsReturned =>
        \A s \in QubitEntries \cup EdgeEntries :
            \A g \in Range(s.gates) : Virtual(g) => g.fidelity = Some(PERFECT_FIDELITY)

\* the characteristic that names the fidelity of an operator
FidelityName(operator) ==
    CASE operator = "RX" -> "f1QRB"
      [] operator = "MEASURE" -> "fRO"
      [] operator = "CZ" -> "fCZ"
      [] operator = "ISWAP" -> "fISWAP"
      [] operator = "CPHASE" -> "fCPHASE"
      [] operator = "XY" -> "fXY"

\* the value of the first characteristic of that name, else the default
FirstValue(characteristics, name, default) ==
    LET at == {i \in 1..Len(characteristics) : characteristics[i].name = name}
    IN IF at = {} THEN default
       ELSE characteristics[CHOOSE i \in at : \A j \in at : i <= j].value

\* the first declarations of the call, in order, and those made for a site
FirstDeclarations == OperationSites(KeepFirst(src.arg.instructions, {}))
DeclarationsFor(count, ids) ==
    LET On(p) == p.operation.node_count = count /\ Range(p.site.node_ids) = ids
    IN SelectSeq(FirstDeclarations, On)

\* the fidelity and the duration the claim gives an instance of the operator
\* on a site with these characteristics
Measurable(operator, characteristics) ==
    [fidelity |-> Some(FirstValue(characteristics, FidelityName(operator),
                           _operation_names_to_compiler_fidelity_default[operator])),
     duration |-> Some(_operation_names_to_compiler_duration_default[operator])]

\* C15: the fidelity of each non-virtual instance is the value of the first
\* characteristic, in the list of the site's declaration of the instance's
\* operator, that is named after that operator (f1QRB, fRO, fCZ, fISWAP,
\* fCPHASE, fXY), or the operator's default when there is none; its duration
\* is the operator's default.
C15_FidelityByOperatorName ==
    QcsReturned =>
        \A s \in QubitEntries \cup EdgeEntries :
            \A g \in Range(s.gates) :
                ~Virtual(g) =>
                    LET ids == IF "id" \in DOMAIN s THEN {s.id} ELSE Range(s.ids)
                        ds == DeclarationsFor(Cardinality(ids), ids)
                    IN \E k \in 1..Len(ds) :
                          /\ ds[k].operation.name = g.operator
                          /\ g.fidelity = Measurable(g.operator, ds[k].site.characteristics).fidelity
                          /\ g.duration = Measurable(g.operator, ds[k].site.characteristics).duration

\* the fidelities and durations of the instances one declaration adds, in
\* order; None stands for a virtual instance
Block(name, characteristics) ==
    LET m == Measurable(name, characteristics)
    IN CASE name = "RX" -> <<None, Some(m), Some(m), Some(m), Some(m)>>
         [] name = "MEASURE" -> <<Some(m), Some(m)>>
         [] name \in {"RZ", "WILDCARD"} -> <<None>>
         [] OTHER -> <<Some(m)>>

RECURSIVE Blocks(_)
Blocks(ds) ==
    IF Len(ds) = 0 THEN <<>>
    ELSE Block(ds[1].operation.name, ds[1].site.characteristics) \o Blocks(Tail(ds))

\* C15 read by declaration: the instances a site holds are those its first
\* declarations add, in order, and each non-virtual one has the fidelity and
\* the duration of the operation it was declared as
C15_ByDeclaredOperation ==
    QcsReturned =>
        \A s \in QubitEntries \cup EdgeEntries :
            LET ids == IF "id" \in DOMAIN s THEN {s.id} ELSE Range(s.ids)
                expected == Blocks(DeclarationsFor(Cardinality(ids), ids))
            IN /\ Len(s.gates) = Len(expected)
               /\ \A k \in 1..Len(expected) :
                    expected[k] # None =>
                        /\ s.gates[k].fidelity = expected[k][1].fidelity
                        /\ s.gates[k].duration = expected[k][1].duration

(***************************************************************************)
(* Properties of the capabilities of the graph path (SpecGraph).           *)
(***************************************************************************)
\* a capability of the graph path: neither fidelity nor duration is set
Capability(operator, parameters) ==
    [type |-> "GateInfo", operator |-> operator, parameters |-> parameters,
     arguments |-> <<PyStr(<<"_">>)>>, fidelity |-> None, duration |-> None]
MeasureCapability(target) ==
    [type |-> "MeasureInfo", operator |-> "MEASURE", qubit |-> Some(PyStr(<<"_">>)),
     target |-> target, fidelity |-> None, duration |-> None]

\* the capabilities the claim gives a 1Q operator name
Expansion1Q(name) ==
    CASE name = "I" -> <<Capability("I", <<>>)>>
      [] name = "RX" -> <<Capability("RX", <<PyFloat("0.0")>>), Capability("RX", <<PyFloat("pi")>>),
                          Capability("RX", <<PyFloat("-pi")>>), Capability("RX", <<PyFloat("pi/2")>>),
                          Capability("RX", <<PyFloat("-pi/2")>>)>>
      [] name = "RZ" -> <<Capability("RZ", <<PyStr(<<"t", "h", "e", "t", "a">>)>>)>>
      [] name = "MEASURE" -> <<MeasureCapability(Some(PyStr(<<"_">>))), MeasureCapability(None)>>
      [] name = "WILDCARD" -> <<Capability("_", <<PyStr(<<"_">>)>>)>>

RECURSIVE Expansions1Q(_)
Expansions1Q(names) ==
    IF Len(names) = 0 THEN <<>> ELSE Expansion1Q(names[1]) \o Expansions1Q(Tail(names))

\* the names requested: those supplied, or the defaults when none are
Requested(supplied, defaults) ==
    IF supplied = None \/ supplied = Some(<<>>) THEN defaults ELSE supplied[1]

\* C16: I expands to one zero-parameter capability, RX to five at the angles
\* 0, pi, -pi, pi/2, -pi/2, RZ to one with the parameter "theta", MEASURE to
\* two (target "_" and no target), WILDCARD to one that is "_" throughout;
\* every qubit of the ISA holds the concatenation of the expansions in the
\* order of the requested names, the defaults being I, RX, RZ, MEASURE for
\* the qubits and CZ, XY for the edges.
C16_QubitCapabilities ==
    FromGraphReturned =>
        /\ \A q \in QubitEntries :
             q.gates = Expansions1Q(Requested(src.arg.gates_1q, <<"I", "RX", "RZ", "MEASURE">>))
        /\ \A e \in EdgeEntries :
             LET names == Requested(src.arg.gates_2q, <<"CZ", "XY">>)
             IN /\ Len(e.gates) = Len(names)
                /\ \A k \in 1..Len(names) : e.gates[k].operator = CapabilityOperator(names[k])

\* with no names supplied a live and a dead qubit hold the nine default
\* capabilities and an edge holds CZ, then XY
C16_Witness ==
    /\ FromGraphReturned
    /\ src.arg.gates_1q = None /\ src.arg.gates_2q = None
    /\ \E q \in QubitEntries : q.dead /\ Len(q.gates) = 9 /\ q.gates[9] = MeasureCapability(None)
    /\ \E q \in QubitEntries : ~q.dead /\ Len(q.gates) = 9 /\ q.gates[2].parameters = <<PyFloat("0.0")>>
    /\ \E e \in EdgeEntries : e.gates[1].operator = "CZ" /\ e.gates[2].operator = "XY"

\* MEASURE then I are supplied: every qubit holds the two measurements, then I
C16_WitnessOrder ==
    /\ FromGraphReturned
    /\ src.arg.gates_1q = Some(<<"MEASURE", "I">>)
    /\ \E q \in QubitEntries : Len(q.gates) = 3 /\ q.gates[3].operator = "I"

(***************************************************************************)
(* A CompilerDevice (SpecCompilerDevice): CompilerDevice(isa) on an ISA    *)
(* parsed from a document like the test fixture's, then gates_in_isa,      *)
(* compiler_isa_to_graph, qubits() and qubit_topology() on it, in any      *)
(* order and any number of times.                                          *)
(***************************************************************************)
\* the gate lists of the fixture: the default expansions, or none
FixtureGates1Q == {ExtendAll("1Q", DEFAULT_1Q_GATES, <<>>).ret}
FixtureGates2Q == {ExtendAll("2Q", DEFAULT_2Q_GATES, <<>>).ret, <<>>}

NewCompilerDevice ==
    /\ src = Constructed
    /\ call = "none"
    /\ \E deadq \in SUBSET NodeIds, es \in DocEdges, g1 \in FixtureGates1Q, g2 \in FixtureGates2Q :
        \E deade \in SUBSET (1..Len(es)) :
            LET data == Document(deadq, es, deade, g1, g2)
                r == _compiler_isa_from_dict(data)
            IN /\ src' = [call |-> "CompilerDevice", arg |-> data, raised |-> r.raised]
               /\ device' = r.ret
               /\ UNCHANGED <<call, arg, ret>>

Qubits ==
    /\ src.call = "CompilerDevice"
    /\ src.raised = "None"
    /\ call' = "qubits"
    /\ arg' = None
    /\ ret' = CompilerDevice_qubits(device)
    /\ UNCHANGED <<src, device>>

QubitTopology ==
    /\ src.call = "CompilerDevice"
    /\ src.raised = "None"
    /\ call' = "qubit_topology"
    /\ arg' = None
    /\ ret' = CompilerDevice_qubit_topology(device)
    /\ UNCHANGED <<src, device>>

NextCompilerDevice ==
    NewCompilerDevice \/ GatesInIsa \/ CompilerIsaToGraph \/ Qubits \/ QubitTopology

SpecCompilerDevice == Init /\ [][NextCompilerDevice]_vars

(***************************************************************************)
(* Properties of a CompilerDevice (SpecCompilerDevice).                    *)
(***************************************************************************)
\* C17: compiler_isa_to_graph returns an undirected graph whose edges are
\* exactly the id pairs of the ISA's Edge entries, the dead ones included
\* (and whose nodes are the ids on those edges).
C17_GraphOfEdgeEntries ==
    call \in {"compiler_isa_to_graph", "qubit_topology"} =>
        /\ ret.edges = {Range(e.ids) : e \in EdgeEntries}
        /\ ret.nodes = UNION {Range(e.ids) : e \in EdgeEntries}
        /\ \A e \in EdgeEntries : Cardinality(Range(e.ids)) = 2

\* the ISA holds a dead and a live edge and the graph has both
C17_Witness ==
    /\ call = "compiler_isa_to_graph"
    /\ \E e \in EdgeEntries : e.dead /\ Range(e.ids) \in ret.edges
    /\ \E e \in EdgeEntries : ~e.dead /\ Range(e.ids) \in ret.edges
    /\ Cardinality(ret.edges) = 2

\* C18: after any sequence of gates_in_isa, compiler_isa_to_graph, qubits()
\* and qubit_topology() the ISA of the device is the ISA it was built with:
\* the same qubit and edge maps, dead flags and gate lists.
C18_SynthesisReadsOnly ==
    (src.call = "CompilerDevice" /\ src.raised = "None")
        => device = _compiler_isa_from_dict(src.arg).ret

\* gates_in_isa has returned gates for an ISA with a dead qubit, a dead edge
\* and capabilities on every site
C18_Witness ==
    /\ src.call = "CompilerDevice"
    /\ GatesReturned
    /\ Len(ret.ret) > 0
    /\ \E q \in QubitEntries : q.dead /\ Len(q.gates) > 0
    /\ \E e \in EdgeEntries : e.dead /\ Len(e.gates) > 0
    /\ device = _compiler_isa_from_dict(src.arg).ret

(***************************************************************************)
(* The readout sources (SpecReadout):                                      *)
(* _collect_classical_memory_write_locations on a program.                 *)
(***************************************************************************)
\* the instructions of a program: declarations of `ro` and of another
\* region, measurements of qubit 0 or 1 without a target, into ro[0] or
\* ro[1], or into another region, and a gate
Instructions ==
    {Declare("ro", 0), Declare("ro", 1), Declare("ro", 2), Declare("theta", 1),
     GateInstruction}
    \cup {Measurement(q, reg) :
            q \in {0, 1},
            reg \in {None, Some(MemoryReference("ro", 0)), Some(MemoryReference("ro", 1)),
                     Some(MemoryReference("theta", 0))}}

Programs == UNION {[1..k -> Instructions] : k \in 0..MaxProgramLen}

CollectClassicalMemoryWriteLocations ==
    /\ src = Constructed
    /\ call = "none"
    /\ \E program \in Programs :
        /\ call' = "_collect_classical_memory_write_locations"
        /\ arg' = program
        /\ ret' = _collect_classical_memory_write_locations(program)
        /\ UNCHANGED <<src, device>>

NextReadout == CollectClassicalMemoryWriteLocations

SpecReadout == Init /\ [][NextReadout]_vars

(***************************************************************************)
(* Properties of the readout sources (SpecReadout).                        *)
(***************************************************************************)
Collected == call = "_collect_classical_memory_write_locations"

\* the positions of the program that measure into ro[offset], that declare
\* `ro`, and that measure into another region
MeasuresInto(offset) ==
    {i \in 1..Len(arg) : /\ arg[i].kind = "Measurement"
                         /\ arg[i].classical_reg = Some(MemoryReference("ro", offset))}
RoDeclarations == {i \in 1..Len(arg) : arg[i].kind = "Declare" /\ arg[i].name = "ro"}
MeasuresElsewhere ==
    {i \in 1..Len(arg) : /\ arg[i].kind = "Measurement"
                         /\ arg[i].classical_reg # None
                         /\ arg[i].classical_reg[1].name # "ro"}
Last(S) == CHOOSE i \in S : \A j \in S : j <= i
Offsets == {0, 1}

\* several MEASUREs write ro[offset] from different qubits
Overwritten(offset) ==
    \E i, j \in MeasuresInto(offset) : arg[i].qubit # arg[j].qubit

\* the entry of the returned table at the offset is the last of the MEASUREs
\* into it, and each one after the first was logged
LastSourceRecorded(offset) ==
    /\ ret.raised = "None"
    /\ Len(ret.ret) > offset
    /\ ret.ret[offset + 1] =
         Some(<<MemoryReference("ro", offset),
                PyStr(<<"q">> \o Str(arg[Last(MeasuresInto(offset))].qubit))>>)
    /\ Cardinality({k \in 1..Len(ret.warnings) : ret.warnings[k].offset = offset})
         = Cardinality(MeasuresInto(offset)) - 1

ReadoutRegionDeclared(offset) ==
    /\ Cardinality(RoDeclarations) = 1
    /\ \A i \in RoDeclarations : arg[i].memory_size > offset
    /\ MeasuresElsewhere = {}

C20_DuplicateRoRaises ==
    Collected =>
        /\ Cardinality(RoDeclarations) > 1 =>
             /\ ret.raised = "ValueError: multiple ro"
             /\ ret.ret = None
             /\ ret.ro_sources = <<>>
             /\ ret.warnings = <<>>
        /\ Cardinality(RoDeclarations) <= 1 => ret.raised # "ValueError: multiple ro"

\* the program measures into ro[0] twice, into another region, and only then
\* declares `ro` twice: the duplicate is what the call raises
C20_Witness ==
    /\ Collected
    /\ Len(arg) = 4
    /\ arg[1] = Measurement(0, Some(MemoryReference("ro", 0)))
    /\ arg[2] = Measurement(1, Some(MemoryReference("theta", 0)))
    /\ RoDeclarations = {3, 4}
    /\ ret.raised = "ValueError: multiple ro"

(***************************************************************************)
(* Gate-parameter expressions (quilatom) and the programs that carry them. *)
(***************************************************************************)
MaxGates == 3         \* gate instructions of a generated program

\* the expression tree of a gate parameter
Num(value) == [kind |-> "Number", value |-> value]
Ref(name, offset) == [kind |-> "MemoryReference", name |-> name, offset |-> offset]
Add(op1, op2) == [kind |-> "Add", op1 |-> op1, op2 |-> op2]
Sub(op1, op2) == [kind |-> "Sub", op1 |-> op1, op2 |-> op2]
Mul(op1, op2) == [kind |-> "Mul", op1 |-> op1, op2 |-> op2]
Function(name, expression) == [kind |-> "Function", name |-> name, expression |-> expression]

BinaryKinds == {"Add", "Sub", "Mul"}

\* the memory locations an expression references
RECURSIVE Refs(_)
Refs(e) ==
    IF e.kind = "Number" THEN {}
    ELSE IF e.kind = "MemoryReference" THEN {MemoryReference(e.name, e.offset)}
    ELSE IF e.kind = "Function" THEN Refs(e.expression)
    ELSE Refs(e.op1) \cup Refs(e.op2)

\* instructions of a native program: a gate with its parameters, a typed
\* declaration, RESET
GateInstr(name, params, qubits) ==
    [kind |-> "Gate", name |-> name, params |-> params, qubits |-> qubits]
DeclareTyped(name, memory_type, memory_size) ==
    [kind |-> "Declare", name |-> name, memory_type |-> memory_type,
     memory_size |-> memory_size]
Reset == [kind |-> "Reset"]

theta == Ref("theta", 0)
beta == Ref("beta", 0)

\* GATE_ARITHMETIC_PROGRAMS of the tests
GATE_ARITHMETIC_PROGRAMS ==
    << << DeclareTyped("theta", "REAL", 1),
          DeclareTyped("beta", "REAL", 1),
          DeclareTyped("ro", "BIT", 3),
          GateInstr("RX", <<Num(PyFloat("pi/2"))>>, <<0>>),
          GateInstr("RZ", <<Mul(Num(PyInt(3)), theta)>>, <<0>>),
          GateInstr("RZ", <<Add(beta, theta)>>, <<0>>),
          GateInstr("RX", <<Num(PyFloat("-pi/2"))>>, <<0>>),
          Measurement(0, Some(MemoryReference("ro", 0))),
          Measurement(1, Some(MemoryReference("ro", 1))) >>,
       << Reset,
          DeclareTyped("theta", "REAL", 1),
          DeclareTyped("beta", "REAL", 1),
          DeclareTyped("ro", "BIT", 2),
          GateInstr("RX", <<Num(PyFloat("pi/2"))>>, <<0>>),
          GateInstr("RZ", <<theta>>, <<0>>) >>,
       << DeclareTyped("theta", "REAL", 1),
          DeclareTyped("beta", "REAL", 1),
          DeclareTyped("ro", "BIT", 3),
          GateInstr("RX", <<Num(PyFloat("pi/2"))>>, <<0>>),
          GateInstr("RZ", <<Mul(Num(PyFloat("0.79")), theta)>>, <<0>>),
          GateInstr("RZ", <<Add(Add(Add(Mul(Num(PyInt(2)), beta), Mul(theta, Num(PyFloat("0.5")))),
                                    beta), beta)>>, <<0>>),
          GateInstr("RX", <<Num(PyFloat("-pi/2"))>>, <<0>>),
          Measurement(0, Some(MemoryReference("ro", 0))),
          Measurement(1, Some(MemoryReference("ro", 1))) >>,
       << GateInstr("RX", <<Num(PyFloat("pi"))>>, <<0>>) >> >>

(***************************************************************************)
(* The Arithmetic Rewriter: rewrite_arithmetic(program).                   *)
(***************************************************************************)
\* the region that holds the slots of one rewrite
SlotRegion == "__P"

\* a compound expression over memory parameters: neither a literal nor a bare
\* memory reference, and it references at least one parameter
Compound(e) == e.kind \notin {"Number", "MemoryReference"} /\ Refs(e) # {}

RuleOf(table, e) == CHOOSE i \in 1..Len(table) : table[i].expression = e
HasRule(table, e) == \E i \in 1..Len(table) : table[i].expression = e

\* one parameter: the slot already assigned to an equal expression, else a
\* fresh slot with a new rule appended to the table
RewriteParam(e, table) ==
    IF ~Compound(e) THEN [param |-> e, table |-> table]
    ELSE IF HasRule(table, e)
         THEN LET slot == table[RuleOf(table, e)].slot
              IN [param |-> Ref(slot.name, slot.offset), table |-> table]
    ELSE LET slot == MemoryReference(SlotRegion, Len(table))
         IN [param |-> Ref(slot.name, slot.offset),
             table |-> Append(table, [slot |-> slot, expression |-> e])]

RECURSIVE RewriteParams(_, _)
RewriteParams(params, table) ==
    IF Len(params) = 0 THEN [params |-> <<>>, table |-> table]
    ELSE LET first == RewriteParam(params[1], table)
             rest == RewriteParams(Tail(params), first.table)
         IN [params |-> <<first.param>> \o rest.params, table |-> rest.table]

RECURSIVE RewriteInstructions(_, _)
RewriteInstructions(program, table) ==
    IF Len(program) = 0 THEN [quil |-> <<>>, recalculation_table |-> table]
    ELSE IF program[1].kind = "Gate"
         THEN LET r == RewriteParams(program[1].params, table)
                  rest == RewriteInstructions(Tail(program), r.table)
              IN [quil |-> <<[program[1] EXCEPT !.params = r.params]>> \o rest.quil,
                  recalculation_table |-> rest.recalculation_table]
    ELSE LET rest == RewriteInstructions(Tail(program), table)
         IN [quil |-> <<program[1]>> \o rest.quil,
             recalculation_table |-> rest.recalculation_table]

rewrite_arithmetic(program) == RewriteInstructions(program, <<>>)

(***************************************************************************)
(* api/_compiler.py: QPUCompiler.native_quil_to_executable.                *)
(***************************************************************************)
\* val.strip() for the space character
RECURSIVE LStrip(_)
LStrip(s) == IF Len(s) > 0 /\ s[1] = " " THEN LStrip(Tail(s)) ELSE s
RECURSIVE RStrip(_)
RStrip(s) == IF Len(s) > 0 /\ s[Len(s)] = " " THEN RStrip(SubSeq(s, 1, Len(s) - 1)) ELSE s
Strip(s) == RStrip(LStrip(s))

\* parse_mref: "name[offset]" or "name" (offset 0); any failure inside is a
\* ValueError
parse_mref(val) ==
    LET v == Strip(val)
        failed == [raised |-> "ValueError", ret |-> None]
    IN IF Len(v) = 0 THEN failed
       ELSE IF v[Len(v)] = "]"
            THEN LET parts == Split(v, "[")
                 IN IF Len(parts) # 2 THEN failed
                    ELSE LET offset == ParseInt(SubSeq(parts[2], 1, Len(parts[2]) - 1))
                         IN IF offset.raised # "None" THEN failed
                            ELSE [raised |-> "None",
                                  ret |-> MemoryReference(parts[1], offset.ret)]
       ELSE [raised |-> "None", ret |-> MemoryReference(v, 0)]

ParameterSpec(type, length) == [type |-> type, length |-> length]

\* _collect_memory_descriptors: one entry per declared name, the last
\* declaration of a name giving its value
RECURSIVE CollectMemoryDescriptors(_, _)
CollectMemoryDescriptors(program, acc) ==
    IF Len(program) = 0 THEN acc
    ELSE IF program[1].kind = "Declare"
         THEN CollectMemoryDescriptors(
                  Tail(program),
                  DictSet(acc, PyStr(program[1].name),
                          ParameterSpec(program[1].memory_type, program[1].memory_size)))
    ELSE CollectMemoryDescriptors(Tail(program), acc)
_collect_memory_descriptors(program) == CollectMemoryDescriptors(program, <<>>)

\* [(parse_mref(mref), source) for mref, source in response.ro_sources]
RECURSIVE ParseRoSources(_)
ParseRoSources(ro_sources) ==
    IF Len(ro_sources) = 0 THEN [raised |-> "None", ret |-> <<>>]
    ELSE LET mref == parse_mref(ro_sources[1][1])
         IN IF mref.raised # "None" THEN [raised |-> mref.raised, ret |-> None]
            ELSE LET rest == ParseRoSources(Tail(ro_sources))
                 IN IF rest.raised # "None" THEN rest
                    ELSE [raised |-> "None",
                          ret |-> <<<<mref.ret, ro_sources[1][2]>>>> \o rest.ret]

\* the executable built without attaching the rewriter's table: the response
\* keeps the table the service sent
native_quil_to_executable_without_table(qpu_compiler_client, nq_program, service, debug) ==
    IF ~qpu_compiler_client THEN [raised |-> "UserMessageError", ret |-> None]
    ELSE LET arithmetic_response == rewrite_arithmetic(nq_program)
             parsed == ParseRoSources(service.ro_sources)
             collected == _collect_classical_memory_write_locations(nq_program)
         IN IF parsed.raised # "None" THEN [raised |-> parsed.raised, ret |-> None]
            ELSE IF parsed.ret = <<>> /\ collected.raised # "None"
                 THEN [raised |-> collected.raised, ret |-> None]
            ELSE [raised |-> "None",
                  ret |-> [quilt |-> arithmetic_response.quil,
                           recalculation_table |-> service.recalculation_table,
                           memory_descriptors |-> _collect_memory_descriptors(nq_program),
                           ro_sources |-> IF parsed.ret = <<>> THEN collected.ret
                                          ELSE parsed.ret,
                           debug |-> IF debug THEN service.debug ELSE <<>>]]

\* native_quil_to_executable: `service` is what the QPU compiler endpoint
\* answers to the request that carries the rewritten program
native_quil_to_executable(qpu_compiler_client, nq_program, service, debug) ==
    IF ~qpu_compiler_client THEN [raised |-> "UserMessageError", ret |-> None]
    ELSE LET arithmetic_response == rewrite_arithmetic(nq_program)
             parsed == ParseRoSources(service.ro_sources)
             collected == _collect_classical_memory_write_locations(nq_program)
         IN IF parsed.raised # "None" THEN [raised |-> parsed.raised, ret |-> None]
            ELSE IF parsed.ret = <<>> /\ collected.raised # "None"
                 THEN [raised |-> collected.raised, ret |-> None]
            ELSE [raised |-> "None",
                  ret |-> [quilt |-> arithmetic_response.quil,
                           recalculation_table |-> arithmetic_response.recalculation_table,
                           memory_descriptors |-> _collect_memory_descriptors(nq_program),
                           ro_sources |-> IF parsed.ret = <<>> THEN collected.ret
                                          ELSE parsed.ret,
                           debug |-> IF debug THEN service.debug ELSE <<>>]]

(***************************************************************************)
(* Compiling programs to executables (SpecRewrite).                        *)
(***************************************************************************)
GeneratedInstructions ==
    {GateInstr("RZ", <<e>>, <<0>>) :
        e \in {Mul(Num(PyInt(3)), theta), Add(beta, theta), Add(theta, beta), theta,
               Mul(Function("COS", beta), Function("SIN", theta)),
               Function("SQRT", Num(PyInt(2)))}}
    \cup {GateInstr("RX", <<Num(PyFloat("pi/2"))>>, <<0>>),
          GateInstr("U", <<Mul(Num(PyInt(3)), theta), Sub(theta, beta)>>, <<0>>)}

NativePrograms ==
    Range(GATE_ARITHMETIC_PROGRAMS)
    \cup UNION {[1..k -> GeneratedInstructions] : k \in 0..MaxGates}

\* answers of the QPU compiler endpoint: the readout sources it reports, as
\* strs, and its debug payload
ServiceResponses ==
    {[ro_sources |-> s, recalculation_table |-> <<>>, debug |-> <<"payload">>] :
        s \in {<<>>,
               <<<<<<"r", "o", "[", "1", "]">>, <<"q", "0">>>>>>,
               <<<<<<" ", "r", "o">>, <<"q", "1">>>>, <<<<"r", "o", "[", "]">>, <<"q", "0">>>>>>}}

NativeQuilToExecutable ==
    /\ src = Constructed
    /\ call = "none"
    /\ \E client \in BOOLEAN, nq_program \in NativePrograms,
          service \in ServiceResponses, debug \in BOOLEAN :
        /\ call' = "native_quil_to_executable"
        /\ arg' = nq_program
        /\ ret' = native_quil_to_executable(client, nq_program, service, debug)
        /\ UNCHANGED <<src, device>>

NextRewrite == NativeQuilToExecutable

SpecRewrite == Init /\ [][NextRewrite]_vars

(***************************************************************************)
(* Properties of the recalculation table of an executable (SpecRewrite).   *)
(***************************************************************************)
Compiled == call = "native_quil_to_executable" /\ ret.raised = "None"
Executable == ret.ret

\* the places <<instruction, parameter>> of the program that hold a compound
\* expression, and the distinct expressions found there
CompoundAt ==
    UNION {{<<i, k>> : k \in {k \in 1..Len(arg[i].params) : Compound(arg[i].params[k])}} :
             i \in {i \in 1..Len(arg) : arg[i].kind = "Gate"}}
ParamAt(program, p) == program[p[1]].params[p[2]]
CompoundExpressions == {ParamAt(arg, p) : p \in CompoundAt}
RulesFor(e) ==
    {i \in 1..Len(Executable.recalculation_table) :
        Executable.recalculation_table[i].expression = e}

C21_WitnessTestProgram ==
    /\ Compiled
    /\ arg = GATE_ARITHMETIC_PROGRAMS[1]
    /\ Len(Executable.recalculation_table) = 2

(***************************************************************************)
(* The Recalculation Engine: the QPU object of the tests, with the memory  *)
(* written to it and the executable loaded on it.                          *)
(***************************************************************************)
ParameterAref(name, index) == [name |-> name, index |-> index]

\* a dict keyed by ParameterAref, as a function on the keys it holds
ShimSet(shim, key, value) ==
    [k \in DOMAIN shim \cup {key} |-> IF k = key THEN value ELSE shim[k]]

\* numbers: an int is computed with, any other number is carried as the
\* expression that computes it
IsInt(v) == DOMAIN v = {"int"}
Apply(op, v1, v2) ==
    IF IsInt(v1) /\ IsInt(v2)
    THEN PyInt(CASE op = "Add" -> v1.int + v2.int
                 [] op = "Sub" -> v1.int - v2.int
                 [] op = "Mul" -> v1.int * v2.int)
    ELSE [op |-> op, op1 |-> v1, op2 |-> v2]
ApplyFunction(name, v) == [fn |-> name, of |-> v]

FunctionNames == {"SQRT", "SIN", "COS"}

Resolved(v) == [raised |-> "None", ret |-> v, location |-> None]
Missing(key) == [raised |-> "MissingMemoryValueError", ret |-> None, location |-> Some(key)]

\* an evaluation that takes 0 for a location that was never written
RECURSIVE ResolveDefaultingToZero(_, _)
ResolveDefaultingToZero(expression, shim) ==
    IF expression.kind = "Number" THEN Resolved(expression.value)
    ELSE IF expression.kind = "MemoryReference"
         THEN LET key == ParameterAref(expression.name, expression.offset)
              IN IF key \in DOMAIN shim THEN Resolved(shim[key]) ELSE Resolved(PyInt(0))
    ELSE IF expression.kind = "Function"
         THEN Resolved(ApplyFunction(expression.name,
                                     ResolveDefaultingToZero(expression.expression, shim).ret))
    ELSE Resolved(Apply(expression.kind,
                        ResolveDefaultingToZero(expression.op1, shim).ret,
                        ResolveDefaultingToZero(expression.op2, shim).ret))

\* an evaluation whose subtraction takes its operands in the wrong order
RECURSIVE ResolveSubSwapped(_, _)
ResolveSubSwapped(expression, shim) ==
    IF expression.kind = "Number" THEN Resolved(expression.value)
    ELSE IF expression.kind = "MemoryReference"
         THEN LET key == ParameterAref(expression.name, expression.offset)
              IN IF key \in DOMAIN shim THEN Resolved(shim[key]) ELSE Missing(key)
    ELSE IF expression.kind = "Function"
         THEN LET v == ResolveSubSwapped(expression.expression, shim)
              IN IF v.raised # "None" THEN v
                 ELSE Resolved(ApplyFunction(expression.name, v.ret))
    ELSE LET v1 == ResolveSubSwapped(expression.op1, shim)
             v2 == ResolveSubSwapped(expression.op2, shim)
         IN IF v1.raised # "None" THEN v1
            ELSE IF v2.raised # "None" THEN v2
            ELSE IF expression.kind = "Sub" THEN Resolved(Apply("Sub", v2.ret, v1.ret))
            ELSE Resolved(Apply(expression.kind, v1.ret, v2.ret))

\* _resolve_memory_references(expression): the value of the expression tree
\* with every memory reference read from the written values; a reference to
\* a location without a write fails and names the location
RECURSIVE _resolve_memory_references(_, _)
_resolve_memory_references(expression, shim) ==
    IF expression.kind = "Number" THEN Resolved(expression.value)
    ELSE IF expression.kind = "MemoryReference"
         THEN LET key == ParameterAref(expression.name, expression.offset)
              IN IF key \in DOMAIN shim THEN Resolved(shim[key]) ELSE Missing(key)
    ELSE IF expression.kind = "Function"
         THEN LET v == _resolve_memory_references(expression.expression, shim)
              IN IF v.raised # "None" THEN v
                 ELSE IF expression.name \notin FunctionNames
                      THEN [raised |-> "UnsupportedExpressionOperatorError",
                            ret |-> None, location |-> None]
                 ELSE Resolved(ApplyFunction(expression.name, v.ret))
    ELSE LET v1 == _resolve_memory_references(expression.op1, shim)
             v2 == _resolve_memory_references(expression.op2, shim)
         IN IF v1.raised # "None" THEN v1
            ELSE IF v2.raised # "None" THEN v2
            ELSE Resolved(Apply(expression.kind, v1.ret, v2.ret))

\* _update_variables_shim_with_recalculation_table: every rule in table
\* order is evaluated and its value stored in the variables shim under the
\* rule's slot; a rule that fails stops the loop, what was stored stays
RECURSIVE UpdateVariablesShim(_, _)
UpdateVariablesShim(table, shim) ==
    IF Len(table) = 0 THEN [raised |-> "None", location |-> None, shim |-> shim]
    ELSE LET v == _resolve_memory_references(table[1].expression, shim)
         IN IF v.raised # "None"
            THEN [raised |-> v.raised, location |-> v.location, shim |-> shim]
            ELSE UpdateVariablesShim(
                     Tail(table),
                     ShimSet(shim, ParameterAref(table[1].slot.name, table[1].slot.offset),
                             v.ret))

\* the patch table: for each region of the shim, its values by index
PatchValues(shim) ==
    [name \in {k.name : k \in DOMAIN shim} |->
        [i \in {k.index : k \in {k \in DOMAIN shim : k.name = name}} |->
            shim[ParameterAref(name, i)]]]

\* _build_patch_values: the shim is brought up to date with the table, then
\* read out as the patch table
_build_patch_values(table, shim) ==
    LET updated == UpdateVariablesShim(table, shim)
    IN [raised |-> updated.raised, location |-> updated.location, shim |-> updated.shim,
        ret |-> IF updated.raised = "None" THEN Some(PatchValues(updated.shim)) ELSE None]

(***************************************************************************)
(* Dispatches on one QPU (SpecEngine): an executable is loaded, memory is  *)
(* written, and the recalculation table is resolved, in any order.         *)
(***************************************************************************)
\* a program whose rules subtract and call the named functions
FunctionProgram ==
    << DeclareTyped("theta", "REAL", 1),
       DeclareTyped("beta", "REAL", 2),
       GateInstr("RZ", <<Sub(theta, Ref("beta", 1))>>, <<0>>),
       GateInstr("RZ", <<Mul(Function("COS", beta), Function("SIN", theta))>>, <<0>>),
       GateInstr("RZ", <<Add(Function("SQRT", Num(PyInt(2))), theta)>>, <<0>>) >>

EnginePrograms == Range(GATE_ARITHMETIC_PROGRAMS) \cup {FunctionProgram}

Binary(program) ==
    native_quil_to_executable(
        TRUE, program,
        [ro_sources |-> <<>>, recalculation_table |-> <<>>, debug |-> <<>>], FALSE).ret

\* parse_expression of the tests, on the expressions they evaluate
TestExpressions ==
    {Add(Function("SQRT", Num(PyInt(2))), theta),
     Add(Mul(beta, Num(PyInt(2))), Num(PyInt(1))),
     Mul(Add(beta, Num(PyInt(2))), Add(Num(PyInt(1)), theta)),
     Mul(Function("COS", beta), Function("SIN", theta)),
     Mul(beta, theta),
     Sub(theta, beta)}

MemoryValues == {PyInt(2), PyInt(0 - 1)}
WrittenLocations == {ParameterAref("theta", 0), ParameterAref("beta", 0), ParameterAref("beta", 1)}

QPU == [status |-> "connected", _executable |-> None, _variables_shim |-> <<>>]

NewQPU ==
    /\ src = Constructed
    /\ call = "none"
    /\ src' = [call |-> "QPU", arg |-> None, raised |-> "None"]
    /\ device' = QPU
    /\ UNCHANGED <<call, arg, ret>>

Load ==
    /\ src.call = "QPU"
    /\ \E program \in EnginePrograms :
        /\ device' = [device EXCEPT !.status = "loaded", !._executable = Some(Binary(program))]
        /\ call' = "load"
        /\ arg' = program
        /\ ret' = None
        /\ UNCHANGED src

WriteMemory ==
    /\ src.call = "QPU"
    /\ device.status = "loaded"
    /\ \E key \in WrittenLocations, value \in MemoryValues :
        /\ device' = [device EXCEPT !._variables_shim = ShimSet(@, key, value)]
        /\ call' = "write_memory"
        /\ arg' = <<key, value>>
        /\ ret' = None
        /\ UNCHANGED src

ResolveMemoryReferences ==
    /\ src.call = "QPU"
    /\ device.status = "loaded"
    /\ \E expression \in TestExpressions :
        /\ call' = "_resolve_memory_references"
        /\ arg' = expression
        /\ ret' = _resolve_memory_references(expression, device._variables_shim)
        /\ UNCHANGED <<src, device>>

UpdateVariablesShimWithRecalculationTable ==
    /\ src.call = "QPU"
    /\ device.status = "loaded"
    /\ LET r == UpdateVariablesShim(device._executable[1].recalculation_table,
                                    device._variables_shim)
       IN /\ device' = [device EXCEPT !._variables_shim = r.shim]
          /\ call' = "_update_variables_shim_with_recalculation_table"
          /\ arg' = device._variables_shim
          /\ ret' = [raised |-> r.raised, location |-> r.location, ret |-> None]
          /\ UNCHANGED src

BuildPatchValues ==
    /\ src.call = "QPU"
    /\ device.status = "loaded"
    /\ LET r == _build_patch_values(device._executable[1].recalculation_table,
                                    device._variables_shim)
       IN /\ device' = [device EXCEPT !._variables_shim = r.shim]
          /\ call' = "_build_patch_values"
          /\ arg' = device._variables_shim
          /\ ret' = [raised |-> r.raised, location |-> r.location, ret |-> r.ret]
          /\ UNCHANGED src

NextEngine ==
    \/ NewQPU
    \/ Load
    \/ WriteMemory
    \/ ResolveMemoryReferences
    \/ UpdateVariablesShimWithRecalculationTable
    \/ BuildPatchValues

SpecEngine == Init /\ [][NextEngine]_vars

(***************************************************************************)
(* Properties of the Recalculation Engine (SpecEngine).                    *)
(***************************************************************************)
\* a call that resolves the loaded table; `arg` holds the memory as it was
\* written when the call was made
Resolving == call \in {"_build_patch_values", "_update_variables_shim_with_recalculation_table"}
LoadedTable == device._executable[1].recalculation_table

KeysOf(expression) == {ParameterAref(r.name, r.offset) : r \in Refs(expression)}
\* the locations some rule of the loaded table references and nobody wrote
Unwritten == UNION {KeysOf(LoadedTable[i].expression) \ DOMAIN arg : i \in 1..Len(LoadedTable)}

\* C22: resolving a table in which a rule references a memory location that
\* has no write fails with the missing-value error naming such a location;
\* no default stands in for the value and no patch table is returned.
C22_MissingValueRaises ==
    Resolving =>
        /\ Unwritten # {} =>
             /\ ret.raised = "MissingMemoryValueError"
             /\ \E key \in Unwritten : ret.location = Some(key)
             /\ ret.ret = None
        /\ Unwritten = {} => ret.raised = "None"

\* theta is written and beta is not: the rule for 3*theta resolves, the rule
\* for beta+theta stops the call at beta[0]
C22_Witness ==
    /\ call = "_build_patch_values"
    /\ Len(LoadedTable) = 2
    /\ LoadedTable[2].expression = Add(beta, theta)
    /\ DOMAIN arg = {ParameterAref("theta", 0)}
    /\ ret.raised = "MissingMemoryValueError"
    /\ ret.location = Some(ParameterAref("beta", 0))
    /\ ret.ret = None

\* the expression with every memory reference replaced by its written value,
\* and the value of an expression without references
RECURSIVE Substituted(_, _)
Substituted(e, shim) ==
    IF e.kind = "Number" THEN e
    ELSE IF e.kind = "MemoryReference" THEN Num(shim[ParameterAref(e.name, e.offset)])
    ELSE IF e.kind = "Function" THEN Function(e.name, Substituted(e.expression, shim))
    ELSE [kind |-> e.kind, op1 |-> Substituted(e.op1, shim), op2 |-> Substituted(e.op2, shim)]

RECURSIVE ClosedValue(_)
ClosedValue(e) ==
    IF e.kind = "Number" THEN e.value
    ELSE IF e.kind = "Function" THEN [fn |-> e.name, of |-> ClosedValue(e.expression)]
    ELSE LET v1 == ClosedValue(e.op1)
             v2 == ClosedValue(e.op2)
         IN IF IsInt(v1) /\ IsInt(v2)
            THEN IF e.kind = "Add" THEN PyInt(v1.int + v2.int)
                 ELSE IF e.kind = "Sub" THEN PyInt(v1.int - v2.int)
                 ELSE PyInt(v1.int * v2.int)
            ELSE [op |-> e.kind, op1 |-> v1, op2 |-> v2]

\* the value a resolving call gave to rule i: read from the patch table it
\* returned, or from the variables it updated
ResolvedValue(i) ==
    IF call = "_build_patch_values"
    THEN ret.ret[1][LoadedTable[i].slot.name][LoadedTable[i].slot.offset]
    ELSE device._variables_shim[ParameterAref(LoadedTable[i].slot.name,
                                              LoadedTable[i].slot.offset)]

WrittenTheta == arg[ParameterAref("theta", 0)].int
WrittenBeta == arg[ParameterAref("beta", 0)].int

\* C23: with t and b written to theta and beta, the rule for 3*theta
\* resolves to 3*t and the rule for theta+beta to t+b; every rule resolves
\* to the value of its expression tree with each memory reference replaced
\* by its written value, and so does every expression evaluated directly.
C23_ResolvedValues ==
    /\ (Resolving /\ ret.raised = "None") =>
          \A i \in 1..Len(LoadedTable) :
             /\ ResolvedValue(i) = ClosedValue(Substituted(LoadedTable[i].expression, arg))
             /\ LoadedTable[i].expression = Mul(Num(PyInt(3)), theta)
                   => ResolvedValue(i) = PyInt(3 * WrittenTheta)
             /\ LoadedTable[i].expression \in {Add(theta, beta), Add(beta, theta)}
                   => ResolvedValue(i) = PyInt(WrittenTheta + WrittenBeta)
             /\ LoadedTable[i].expression = Sub(theta, Ref("beta", 1))
                   => ResolvedValue(i) =
                        PyInt(WrittenTheta - arg[ParameterAref("beta", 1)].int)
    /\ (call = "_resolve_memory_references" /\ ret.raised = "None") =>
          /\ ret.ret = ClosedValue(Substituted(arg, device._variables_shim))
          /\ arg = Sub(theta, beta)
                => ret.ret = PyInt(device._variables_shim[ParameterAref("theta", 0)].int
                                   - device._variables_shim[ParameterAref("beta", 0)].int)

\* theta = 2 and beta = -1: the patch table holds 6 for 3*theta and 1 for
\* beta+theta
C23_Witness ==
    /\ call = "_build_patch_values"
    /\ ret.raised = "None"
    /\ Len(LoadedTable) = 2
    /\ LoadedTable[1].expression = Mul(Num(PyInt(3)), theta)
    /\ LoadedTable[2].expression = Add(beta, theta)
    /\ WrittenTheta = 2
    /\ WrittenBeta = 0 - 1
    /\ ret.ret[1][SlotRegion][0] = PyInt(6)
    /\ ret.ret[1][SlotRegion][1] = PyInt(1)

\* theta = -1 and beta[1] = 2 under the program that subtracts: theta - beta[1]
\* resolves to -3
C23_WitnessSub ==
    /\ call = "_update_variables_shim_with_recalculation_table"
    /\ ret.raised = "None"
    /\ Len(LoadedTable) = 3
    /\ LoadedTable[1].expression = Sub(theta, Ref("beta", 1))
    /\ WrittenTheta = 0 - 1
    /\ arg[ParameterAref("beta", 1)] = PyInt(2)
    /\ ResolvedValue(1) = PyInt(0 - 3)

ResolvingCalls == {"_build_patch_values", "_update_variables_shim_with_recalculation_table"}

\* C24: the patch table is recomputed on every dispatch from that dispatch's
\* memory writes only, and a resolving call leaves the recalculation table
\* and the written memory as they were: in every step that resolves, the
\* result is the one computed from the table and the memory of that step,
\* and the QPU's executable and written memory are unchanged.
C24_ResolveLeavesStateUnchanged ==
    [][call' \in ResolvingCalls =>
          /\ ret'.raised = UpdateVariablesShim(LoadedTable, device._variables_shim).raised
          /\ device'._executable = device._executable
          /\ device'._variables_shim = device._variables_shim]_vars

\* the table alone is left unchanged by every resolving step
C24_TableUnchanged ==
    [][call' \in ResolvingCalls => device'._executable = device._executable]_vars

(***************************************************************************)
(* Properties of the edge operations of the vendor path (SpecQcs).         *)
(***************************************************************************)
Named2Q == {"CZ", "ISWAP", "CPHASE", "XY"}

\* the edge operations the call declared on an edge of the returned ISA
EdgeDeclarations ==
    {p \in QcsPairs : /\ p.operation.node_count = 2
                      /\ p.operation.name \in Named2Q
                      /\ Len(p.site.node_ids) >= 2}
EdgeOf(p) == DictAt(device.edges, PyStr(_make_edge_id(p.site.node_ids[1], p.site.node_ids[2])))

\* C25: in the vendor path an edge operation named X among CZ, ISWAP,
\* CPHASE, XY gives the edge a capability whose operator is X itself, with
\* the one parameter "theta" for CPHASE and XY, and gates_in_isa on the
\* resulting ISA returns X on that edge in both directions.
C25_EdgeOperatorIsItsName ==
    /\ (QcsReturned /\ call = "none") =>
          \A p \in EdgeDeclarations :
             \E c \in Range(EdgeOf(p).gates) :
                /\ c.operator = p.operation.name
                /\ c.parameters = IF p.operation.name \in {"CPHASE", "XY"}
                                  THEN <<Theta>> ELSE <<>>
    /\ (QcsReturned /\ GatesReturned) =>
          \A p \in EdgeDeclarations :
             /\ Instance2Q(p.operation.name, EdgeOf(p).ids) \in Returned
             /\ Instance2Q(p.operation.name, Reverse(EdgeOf(p).ids)) \in Returned

\* the same for the three operations other than CPHASE, on the capabilities
C25_EdgeOperatorIsItsName_NotCPHASE ==
    (QcsReturned /\ call = "none") =>
        \A p \in EdgeDeclarations :
            p.operation.name # "CPHASE" =>
                \E c \in Range(EdgeOf(p).gates) :
                    /\ c.operator = p.operation.name
                    /\ c.parameters = IF p.operation.name = "XY" THEN <<Theta>> ELSE <<>>

(***************************************************************************)
(* Properties of the returned source table (SpecReadout).                  *)
(***************************************************************************)
MeasuresWithTarget ==
    {i \in 1..Len(arg) : arg[i].kind = "Measurement" /\ arg[i].classical_reg # None}
DeclaredRoSize == arg[Last(RoDeclarations)].memory_size
SourceOf(i) == <<MemoryReference("ro", arg[i].classical_reg[1].offset),
                 PyStr(<<"q">> \o Str(arg[i].qubit))>>

C26_WitnessEmptyRegion ==
    /\ Collected
    /\ Cardinality(RoDeclarations) = 1
    /\ DeclaredRoSize = 0
    /\ MeasuresInto(0) # {}
    /\ ret.raised = "ValueError: no ro"

(***************************************************************************)
(* The version checks of api/_compiler.py, api/_qac.py and api/_qvm.py.    *)
(***************************************************************************)
MaxMinor == 10        \* highest minor version number tried
MaxMajor == 2         \* highest major version number tried

\* major, minor, patch = map(int, version.split(".")): [raised, ret]
ParseVersion(version) ==
    LET parts == Split(version, ".")
        ints == [i \in 1..Len(parts) |-> ParseInt(parts[i])]
    IN IF \E i \in 1..Len(parts) : ints[i].raised # "None"
       THEN [raised |-> "ValueError", ret |-> None]
       ELSE IF Len(parts) # 3 THEN [raised |-> "ValueError", ret |-> None]
       ELSE [raised |-> "None", ret |-> <<ints[1].ret, ints[2].ret, ints[3].ret>>]

\* the body the three checks share: if major == 1 and minor < 8: raise
VersionCheck(version, mismatch) ==
    LET parsed == ParseVersion(version)
    IN IF parsed.raised # "None" THEN [raised |-> parsed.raised, ret |-> None]
       ELSE IF parsed.ret[1] = 1 /\ parsed.ret[2] < 8
            THEN [raised |-> mismatch, ret |-> None]
       ELSE [raised |-> "None", ret |-> None]

Quilc == PyStr(<<"q", "u", "i", "l", "c">>)

check_quilc_version(version_dict) ==
    IF ~DictHas(version_dict, Quilc) THEN [raised |-> "KeyError", ret |-> None]
    ELSE VersionCheck(DictAt(version_dict, Quilc), "QuilcVersionMismatch")

_check_quilc_version(version_dict) ==
    IF ~DictHas(version_dict, Quilc) THEN [raised |-> "KeyError", ret |-> None]
    ELSE VersionCheck(DictAt(version_dict, Quilc), "QuilcVersionMismatch")

check_qvm_version(version) == VersionCheck(version, "QVMVersionMismatch")

(***************************************************************************)
(* Checking the version a server reports (SpecVersion).                    *)
(***************************************************************************)
VersionString(major, minor, patch) == Join(<<".">>, <<Str(major), Str(minor), Str(patch)>>)

Versions ==
    {VersionString(major, minor, patch) :
        major \in 0..MaxMajor, minor \in 0..MaxMinor, patch \in 0..1}
    \cup {<<"1", ".", "8">>, <<"1", ".", "8", ".", "0", ".", "1">>,
          <<"1", ".", "x", ".", "0">>, <<>>}

VersionDicts ==
    {<<[key |-> Quilc, val |-> v]>> : v \in Versions} \cup {<<>>}

CheckQuilcVersion ==
    /\ src = Constructed
    /\ call = "none"
    /\ \E version_dict \in VersionDicts :
        /\ call' = "check_quilc_version"
        /\ arg' = version_dict
        /\ ret' = check_quilc_version(version_dict)
        /\ UNCHANGED <<src, device>>

CheckQuilcVersionQac ==
    /\ src = Constructed
    /\ call = "none"
    /\ \E version_dict \in VersionDicts :
        /\ call' = "_check_quilc_version"
        /\ arg' = version_dict
        /\ ret' = _check_quilc_version(version_dict)
        /\ UNCHANGED <<src, device>>

CheckQvmVersion ==
    /\ src = Constructed
    /\ call = "none"
    /\ \E version \in Versions :
        /\ call' = "check_qvm_version"
        /\ arg' = version
        /\ ret' = check_qvm_version(version)
        /\ UNCHANGED <<src, device>>

NextVersion == CheckQuilcVersion \/ CheckQuilcVersionQac \/ CheckQvmVersion

SpecVersion == Init /\ [][NextVersion]_vars

(***************************************************************************)
(* Properties of the version checks (SpecVersion).                         *)
(***************************************************************************)
VersionCalls == {"check_quilc_version", "_check_quilc_version", "check_qvm_version"}
\* the version str the call was given, when it was given one
CheckedVersion ==
    IF call = "check_qvm_version" THEN Some(arg)
    ELSE IF DictHas(arg, Quilc) THEN Some(DictAt(arg, Quilc)) ELSE None
MismatchOf(c) == IF c = "check_qvm_version" THEN "QVMVersionMismatch" ELSE "QuilcVersionMismatch"

\* C27: each version check raises its version-mismatch error for every
\* version major.minor.patch lower than 1.8.0, every 0.x.y included, and
\* raises nothing for every version that is 1.8.0 or higher.
C27_MinimumEnforced ==
    call \in VersionCalls =>
        \A major \in 0..MaxMajor, minor \in 0..MaxMinor, patch \in 0..1 :
            CheckedVersion = Some(VersionString(major, minor, patch)) =>
                IF major < 1 \/ (major = 1 /\ minor < 8)
                THEN ret.raised = MismatchOf(call)
                ELSE ret.raised = "None"

\* the same for the versions whose major number is at least 1
C27_MinimumEnforced_From1 ==
    call \in VersionCalls =>
        \A major \in 1..MaxMajor, minor \in 0..MaxMinor, patch \in 0..1 :
            CheckedVersion = Some(VersionString(major, minor, patch)) =>
                IF major = 1 /\ minor < 8
                THEN ret.raised = MismatchOf(call)
                ELSE ret.raised = "None"

(***************************************************************************)
(* Entries of one device that are added, given gates and marked dead       *)
(* (SpecEntries): add_qubit and add_edge next to the writes the synthesis  *)
(* code makes on the entries they return.                                  *)
(***************************************************************************)
MaxSiteGates == 2     \* gate capabilities appended to one qubit or edge

\* qubit.gates.extend(...) on the entry of an existing qubit
ExtendQubitGates ==
    /\ src = Constructed
    /\ \E n \in NodeIds, gates \in {graph_make_i_gates, graph_make_rz_gates} :
        /\ get_qubit(device, n) # None
        /\ Len(get_qubit(device, n)[1].gates) < MaxSiteGates
        /\ device' = [device EXCEPT !.qubits =
                         DictSet(@, PyStr(Str(n)),
                                 [get_qubit(device, n)[1] EXCEPT !.gates = @ \o gates])]
        /\ call' = "gates.extend"
        /\ arg' = <<n>>
        /\ ret' = None
        /\ UNCHANGED src

\* qubit.dead = True on the entry of an existing qubit
SetQubitDead ==
    /\ src = Constructed
    /\ \E n \in NodeIds :
        /\ get_qubit(device, n) # None
        /\ ~get_qubit(device, n)[1].dead
        /\ device' = [device EXCEPT !.qubits =
                         DictSet(@, PyStr(Str(n)),
                                 [get_qubit(device, n)[1] EXCEPT !.dead = TRUE])]
        /\ call' = "dead"
        /\ arg' = <<n>>
        /\ ret' = None
        /\ UNCHANGED src

\* edge.gates.extend(...) on the entry of an existing edge
ExtendEdgeGates ==
    /\ src = Constructed
    /\ \E a \in NodeIds, b \in NodeIds, gates \in {graph_make_cz_gates, graph_make_xy_gates} :
        /\ get_edge(device, a, b) # None
        /\ Len(get_edge(device, a, b)[1].gates) < MaxSiteGates
        /\ device' = [device EXCEPT !.edges =
                         DictSet(@, PyStr(_make_edge_id(a, b)),
                                 [get_edge(device, a, b)[1] EXCEPT !.gates = @ \o gates])]
        /\ call' = "gates.extend"
        /\ arg' = <<a, b>>
        /\ ret' = None
        /\ UNCHANGED src

NextEntries == AddQubit \/ AddEdge \/ ExtendQubitGates \/ SetQubitDead \/ ExtendEdgeGates

SpecEntries == Init /\ [][NextEntries]_vars

(***************************************************************************)
(* Properties of add_qubit and add_edge on existing entries (SpecEntries). *)
(***************************************************************************)
\* C28: add_qubit(device, n) on a device that already holds qubit n returns
\* the existing entry and leaves its dead flag and its gate list, and the
\* rest of the device, unchanged, so no gate capability added before is lost.
C28_AddQubitKeepsEntry ==
    [][(call' = "add_qubit" /\ get_qubit(device, arg'[1]) # None) =>
          /\ device' = device
          /\ ret' = get_qubit(device, arg'[1])]_vars

\* the same for add_edge
C28_AddEdgeKeepsEntry ==
    [][(call' = "add_edge" /\ get_edge(device, arg'[1], arg'[2]) # None) =>
          /\ device' = device
          /\ ret' = get_edge(device, arg'[1], arg'[2])]_vars

(***************************************************************************)
(* device/graph.py, device/qcs.py, device/compiler.py: qubits() and        *)
(* qubit_topology() of the three devices.                                  *)
(***************************************************************************)
\* sorted(nodes) for a set of ints
RECURSIVE SortedNodes(_)
SortedNodes(S) == IF S = {} THEN <<>>
                  ELSE LET m == CHOOSE x \in S : \A y \in S : x <= y
                       IN <<m>> \o SortedNodes(S \ {m})

\* NxDevice.qubits: sorted(self.topology.nodes)
NxDevice_qubits(self) == SortedNodes(self.topology.nodes)

\* NxDevice.qubit_topology: return self.topology
NxDevice_qubit_topology(self) ==
    [nodes |-> self.topology.nodes,
     edges |-> {{self.topology.edges[i][1], self.topology.edges[i][2]} :
                   i \in 1..Len(self.topology.edges)}]

\* QCSDevice.qubits: sorted(node.node_id for node in self._isa.architecture.nodes)
QCSDevice_qubits(self) ==
    Sorted([i \in 1..Len(self._isa.architecture.nodes) |->
               self._isa.architecture.nodes[i].node_id])

\* QCSDevice.qubit_topology:
\* nx.from_edgelist(edge.node_ids for edge in self._isa.architecture.edges)
QCSDevice_qubit_topology(self) ==
    from_edgelist([i \in 1..Len(self._isa.architecture.edges) |->
                      self._isa.architecture.edges[i].node_ids])

NewNxDevice ==
    /\ src = Constructed
    /\ call = "none"
    /\ \E topology \in Graphs, gates_1q \in GateLists1Q, gates_2q \in GateLists2Q :
        /\ src' = [call |-> "NxDevice", arg |-> topology, raised |-> "None"]
        /\ device' = [topology |-> topology, gates_1q |-> gates_1q, gates_2q |-> gates_2q]
        /\ UNCHANGED <<call, arg, ret>>

NewQCSDevice ==
    /\ src = Constructed
    /\ call = "none"
    /\ \E architecture \in Architectures, instructions \in InstructionLists :
        LET isa == [architecture |-> architecture, instructions |-> instructions]
        IN /\ src' = [call |-> "QCSDevice", arg |-> isa, raised |-> "None"]
           /\ device' = [quantum_processor_id |-> "Aspen-8", _isa |-> isa,
                         noise_model |-> None]
           /\ UNCHANGED <<call, arg, ret>>

NxQubits ==
    /\ src.call = "NxDevice"
    /\ call' = "qubits"
    /\ arg' = None
    /\ ret' = NxDevice_qubits(device)
    /\ UNCHANGED <<src, device>>

NxQubitTopology ==
    /\ src.call = "NxDevice"
    /\ call' = "qubit_topology"
    /\ arg' = None
    /\ ret' = NxDevice_qubit_topology(device)
    /\ UNCHANGED <<src, device>>

QcsQubits ==
    /\ src.call = "QCSDevice"
    /\ call' = "qubits"
    /\ arg' = None
    /\ ret' = QCSDevice_qubits(device)
    /\ UNCHANGED <<src, device>>

QcsQubitTopology ==
    /\ src.call = "QCSDevice"
    /\ call' = "qubit_topology"
    /\ arg' = None
    /\ ret' = QCSDevice_qubit_topology(device)
    /\ UNCHANGED <<src, device>>

NextDevices ==
    \/ NewNxDevice \/ NxQubits \/ NxQubitTopology
    \/ NewQCSDevice \/ QcsQubits \/ QcsQubitTopology
    \/ NewCompilerDevice \/ Qubits \/ QubitTopology

SpecDevices == Init /\ [][NextDevices]_vars

(***************************************************************************)
(* Properties of qubits() and qubit_topology() (SpecDevices).              *)
(***************************************************************************)
\* what the device in hand answers to qubits() and to qubit_topology()
DeviceQubits ==
    CASE src.call = "NxDevice" -> NxDevice_qubits(device)
      [] src.call = "QCSDevice" -> QCSDevice_qubits(device)
      [] OTHER -> CompilerDevice_qubits(device)
DeviceTopology ==
    CASE src.call = "NxDevice" -> NxDevice_qubit_topology(device)
      [] src.call = "QCSDevice" -> QCSDevice_qubit_topology(device)
      [] OTHER -> CompilerDevice_qubit_topology(device)
IsAscending(xs) == \A i \in 1..(Len(xs) - 1) : xs[i] < xs[i + 1]

\* C29: for every device, qubits() is sorted ascending and lists exactly the
\* nodes of qubit_topology(): every listed qubit is a node of the graph,
\* qubits without an edge included, and every node of the graph is listed.
C29_QubitsAreTopologyNodes ==
    /\ call = "qubits" =>
          /\ IsAscending(ret)
          /\ Range(ret) = DeviceTopology.nodes
    /\ call = "qubit_topology" => ret.nodes = Range(DeviceQubits)

\* an NxDevice answers both from the one graph it holds, so there the two agree
C29_NxDeviceQubitsAreTopologyNodes ==
    (src.call = "NxDevice" /\ call \in {"qubits", "qubit_topology"}) =>
        /\ IsAscending(DeviceQubits)
        /\ Range(DeviceQubits) = DeviceTopology.nodes

\* on every device qubits() is ascending
C29_QubitsAscending == call = "qubits" => IsAscending(ret)

\* a CompilerDevice with a qubit that no edge touches has answered qubits()
C29_IsolatedQubitListed ==
    /\ src.call = "CompilerDevice"
    /\ call = "qubits"
    /\ \E q \in Range(ret) : q \notin DeviceTopology.nodes

(***************************************************************************)
(* Properties of gates_in_isa on the ISAs of the graph path (SpecGraph).   *)
(***************************************************************************)
\* gates_in_isa was called on an ISA that compiler_isa_from_graph returned
\* for supported gate names
GatesInIsaOfGraphIsa ==
    /\ FromGraphReturned
    /\ call = "gates_in_isa"
    /\ Range(OrDefault(src.arg.gates_1q, DEFAULT_1Q_GATES)) \subseteq Supported1QNames
    /\ Range(OrDefault(src.arg.gates_2q, DEFAULT_2Q_GATES)) \subseteq Supported2QNames
WildcardOnly(site) == ~site.dead /\ Operators(site) = {"_"}

\* C30: gates_in_isa does not raise on an ISA that compiler_isa_from_graph
\* produced from supported gate names, and a live qubit or edge whose only
\* capability is the wildcard has a wildcard gate instance on that site.
C30_WildcardSitesYieldWildcard ==
    GatesInIsaOfGraphIsa =>
        /\ ret.raised = "None"
        /\ \A q \in QubitEntries :
             WildcardOnly(q) => \E g \in Returned : g.name = "_" /\ g.qubits = <<q.id>>
        /\ \A e \in EdgeEntries :
             WildcardOnly(e) => \E g \in Returned : g.name = "_" /\ g.qubits = e.ids

\* without WILDCARD among the 1Q names gates_in_isa does not raise
C30_CompletesWithout1QWildcard ==
    (GatesInIsaOfGraphIsa
       /\ "WILDCARD" \notin Range(OrDefault(src.arg.gates_1q, DEFAULT_1Q_GATES))) =>
        ret.raised = "None"

\* a live edge whose only capability is the wildcard contributes no instance
C30_WildcardEdgeYieldsNothing ==
    (GatesInIsaOfGraphIsa /\ ret.raised = "None") =>
        \A e \in EdgeEntries :
            WildcardOnly(e) => \A g \in Returned : Range(g.qubits) # Range(e.ids)

\* gates_in_isa has run on an ISA with a live wildcard-only qubit
C30_WildcardQubitReached ==
    GatesInIsaOfGraphIsa /\ \E q \in QubitEntries : WildcardOnly(q)

\* gates_in_isa has returned for an ISA with a live wildcard-only edge
C30_WildcardEdgeReached ==
    GatesInIsaOfGraphIsa /\ ret.raised = "None" /\ \E e \in EdgeEntries : WildcardOnly(e)

====
